---------------------------- MODULE Spec2Model ----------------------------
(***************************************************************************)
(* Dragon 32 emulator: WD2797 floppy disk controller (disk.c) on top of    *)
(* the loader's disk image byte stream (loader.c over fat32.c).            *)
(*                                                                         *)
(* One action per I/O handler call of the controller; the disk image is    *)
(* a byte array given by its initial contents and the bytes written since. *)
(* MEM_READ accesses of the CMD, TRACK and SECTOR registers return a       *)
(* register and change nothing, so they are stuttering steps of the model. *)
(* Arrays (the track buffer, the bytes written to the image) are kept as   *)
(* a default value and a map of the indexes that hold something else.      *)
(***************************************************************************)
EXTENDS Integers, Sequences, FiniteSets, TLC

(***************************************************************************)
(* Bounds of the model                                                     *)
(***************************************************************************)
MaxTrack == 1
MaxSector == 2
MaxImgWrites == 1
MaxProbe == 0
MaxCmds == 2
MaxLongCmds == 1
MaxXferCmds == 3
MaxTrapBytes == 2
MaxStray == 2
MaxStream == 16
MaxFull == 8
MaxLoaderCalls == 1
MaxFileOps == 4
MaxRejected == 1
MaxRegCmds == 2

(***************************************************************************)
(* Program constants (disk.c)                                              *)
(***************************************************************************)
WDCmdRestore == 0
WDCmdSeek == 16
WDCmdReadSec == 136
WDCmdWriteSec == 168
WDCmdReadAddr == 192
WDCmdForceInt == 208
WDCmdWriteTrack == 244
WDCmdStepMask == 252

WDRNF == 16
WDCRC == 8
WDTrack0 == 4
WDDRQ == 2
WDBusy == 1

NMIE == 32
SDensE == 8
MotorOn == 4
DriveMask == 3

SEC_PER_TRACK == 18
SECTOR_SIZE == 256
BYTES_PER_TRACK == SEC_PER_TRACK * SECTOR_SIZE
ID_FIELD_SIZE == 6
DISK_INT_INTERVAL == 1000
INIT_SEC_FILL == 229
INIT_BYTE_SKIP == 111
SIZEOF_disk_init_sector_id == 4
SIZEOF_disk_vdk_header_t == 12

DISK_IDLE == 0
DISK_READ == 1
DISK_WRITE == 2
DISK_READ_ID == 3
DISK_WRITE_TRK == 4

FILE_NONE == 0
FILE_VDK == 3

(***************************************************************************)
(* 8-bit arithmetic                                                        *)
(***************************************************************************)
RECURSIVE BitAndN(_, _, _)
BitAndN(a, b, n) ==
    IF n = 0 THEN 0
    ELSE (IF a % 2 = 1 /\ b % 2 = 1 THEN 1 ELSE 0)
         + 2 * BitAndN(a \div 2, b \div 2, n - 1)

BitAnd(a, b) == BitAndN(a, b, 8)

BitOr(a, b) == a + b - BitAnd(a, b)

\* a & ~m on a uint8_t
BitClear(a, m) == a - BitAnd(a, m)

Min(a, b) == IF a < b THEN a ELSE b

(***************************************************************************)
(* The mounted images.  An image descriptor gives the fields of the VDK    *)
(* header; the payload of image k is a fixed byte pattern that differs     *)
(* from one 256-byte sector to the next and inside a sector.               *)
(***************************************************************************)
Images ==
    << [header_size |-> 12, tracks |-> 2, sides |-> 1],
       [header_size |-> 16, tracks |-> 2, sides |-> 2] >>

ImageIds == 1 .. Len(Images)

ImageSize(k) ==
    Images[k].header_size + Images[k].tracks * Images[k].sides * BYTES_PER_TRACK

\* Byte o of image k as it is on the card before any write.
OrigByte(k, o) ==
    LET h == Images[k]
    IN  CASE o = 0 -> 100
          [] o = 1 -> 107
          [] o = 2 -> h.header_size % 256
          [] o = 3 -> h.header_size \div 256
          [] o = 4 -> 16
          [] o = 5 -> 16
          [] o = 6 -> 0
          [] o = 7 -> 0
          [] o = 8 -> h.tracks
          [] o = 9 -> h.sides
          [] o = 10 -> 0
          [] o = 11 -> 0
          [] o >= 12 /\ o < h.header_size -> 0
          [] OTHER ->
               LET p == o - h.header_size
               IN  ((p \div SECTOR_SIZE) * 29 + (p % SECTOR_SIZE) * 3 + k) % 256

EmptyMap == [i \in {} |-> 0]

\* Byte o of an image: the last byte written there, or the original one.
ImgByte(img, o) ==
    IF o \in DOMAIN img.over THEN img.over[o] ELSE OrigByte(img.id, o)

\* The image after storing the n bytes data[0 .. n-1] at offset pos.
ImgStore(img, pos, data, n) ==
    [img EXCEPT !.over =
        [o \in (DOMAIN img.over) \cup (pos .. pos + n - 1) |->
            IF o >= pos /\ o < pos + n THEN data[o - pos] ELSE img.over[o]]]

(***************************************************************************)
(* uint8_t buffer[BYTES_PER_TRACK]                                         *)
(***************************************************************************)
BufAt(buf, i) == IF i \in DOMAIN buf.over THEN buf.over[i] ELSE buf.fill

\* buf[0 .. n-1] = data[0 .. n-1]
BufCopyIn(buf, data, n) ==
    [buf EXCEPT !.over =
        [i \in (DOMAIN buf.over) \cup (0 .. n - 1) |->
            IF i < n THEN data[i] ELSE buf.over[i]]]

\* buf[i] = v
BufSet(buf, i, v) ==
    [buf EXCEPT !.over =
        [j \in (DOMAIN buf.over) \cup {i} |-> IF j = i THEN v ELSE buf.over[j]]]

\* memset(buffer, v, BYTES_PER_TRACK)
BufFill(v) == [fill |-> v, over |-> EmptyMap]

\* The first n bytes of the buffer
BufBytes(buf, n) == [i \in 0 .. n - 1 |-> BufAt(buf, i)]

(***************************************************************************)
(* The byte stream of the open image file (fat32.c through loader.c), for  *)
(* a file with a complete cluster chain on a card that reads and writes    *)
(* without faults.  The disk controller ignores the return values.         *)
(***************************************************************************)
ClosedFile ==
    [file_is_open |-> FALSE, file_size |-> 0, current_position |-> 0,
     eof_flag |-> FALSE]

fat32_fopen(k) ==
    [file_is_open |-> TRUE, file_size |-> ImageSize(k), current_position |-> 0,
     eof_flag |-> (ImageSize(k) = 0)]

fat32_fseek(f, byte_position) ==
    IF ~f.file_is_open \/ byte_position > f.file_size
    THEN f
    ELSE [f EXCEPT !.current_position = byte_position,
                   !.eof_flag = (byte_position = f.file_size)]

\* Number of bytes a read of buffer_length bytes delivers.
ReadCount(f, buffer_length) ==
    IF ~f.file_is_open \/ f.eof_flag
    THEN 0
    ELSE Min(buffer_length, f.file_size - f.current_position)

fat32_fread(f, buffer_length) ==
    LET r == ReadCount(f, buffer_length)
    IN  IF ~f.file_is_open \/ f.eof_flag
        THEN f
        ELSE [f EXCEPT !.current_position = f.current_position + r,
                       !.eof_flag = (f.current_position + r = f.file_size)]

\* The bytes the read delivers, from the file position on.
ReadBytes(f, img, buffer_length) ==
    [i \in 0 .. ReadCount(f, buffer_length) - 1 |->
        ImgByte(img, f.current_position + i)]

WriteFails(f) == ~f.file_is_open \/ f.file_size = 0

fat32_fwrite(f, buffer_length) ==
    IF WriteFails(f)
    THEN f
    ELSE LET pos == f.current_position + buffer_length
             size == IF pos > f.file_size THEN pos ELSE f.file_size
         IN  [f EXCEPT !.file_size = size,
                       !.current_position = pos,
                       !.eof_flag = (pos = size)]

\* errors.h
NO_ERROR == 0
FAT_WRITE_FAIL == -15
FAT_FILE_NOT_OPEN == -19
FAT_FILE_SEEK_RANGE == -20
FAT_FILE_OPEN_ERR == -22
FAT_EOF == -23

\* The file a directory entry of file_size bytes opens
OpenEntry(file_size) ==
    [file_is_open |-> TRUE, file_size |-> file_size, current_position |-> 0,
     eof_flag |-> (file_size = 0)]

fat32_fopen_return(f) == IF f.file_is_open THEN FAT_FILE_OPEN_ERR ELSE NO_ERROR

fat32_fseek_return(f, byte_position) ==
    IF ~f.file_is_open THEN FAT_FILE_NOT_OPEN
    ELSE IF byte_position > f.file_size THEN FAT_FILE_SEEK_RANGE
    ELSE NO_ERROR

\* The value fat32_fread() returns when the card reads without error
fat32_fread_return(f, buffer_length) ==
    IF ~f.file_is_open THEN FAT_FILE_NOT_OPEN
    ELSE IF f.eof_flag THEN FAT_EOF
    ELSE ReadCount(f, buffer_length)

\* The value fat32_fwrite() returns when the card writes without error
fat32_fwrite_return(f, buffer_length) ==
    IF ~f.file_is_open THEN FAT_FILE_NOT_OPEN
    ELSE IF f.file_size = 0 THEN FAT_WRITE_FAIL
    ELSE buffer_length

\* Variant: the write stops one byte short
WriteFromShort(data, f, img, buffer_length) ==
    IF WriteFails(f)
    THEN img
    ELSE ImgStore(img, f.current_position, data, buffer_length - 1)

\* The card after the write of data[0 .. buffer_length-1] at the file position.
WriteFrom(data, f, img, buffer_length) ==
    IF WriteFails(f)
    THEN img
    ELSE ImgStore(img, f.current_position, data, buffer_length)

(***************************************************************************)
(* VDK header as read into vdk_header (12 raw bytes, little endian)        *)
(***************************************************************************)
HeaderSize(h) == h[2] + 256 * h[3]
HeaderTracks(h) == h[8]
HeaderSides(h) == h[9]

\* Variant: sectors counted from 0
OffsetFromSectorZero(track, sector) ==
    SECTOR_SIZE * (SEC_PER_TRACK * track + sector)

\* With sector >= 1 the product is below 2^31: the conversion to uint32_t
\* changes nothing.
disk_to_image_offset(track, sector) ==
    SECTOR_SIZE * (SEC_PER_TRACK * track + (sector - 1))

\* seek_address of a command: the offset, plus the header size of a VDK image
SeekAddress(track, sector, h) ==
    disk_to_image_offset(track, sector) + HeaderSize(h)

(***************************************************************************)
(* State                                                                   *)
(***************************************************************************)
VARIABLES
    state,               \* disk.c: state
    disk_registers,      \* disk.c: disk_registers; disk_cmd, which the code
                         \* writes and never reads, is left out
    nmi_inhibit,         \* disk.c: nmi_inhibit
    buffer,              \* disk.c: buffer[BYTES_PER_TRACK]
    buffer_index,        \* disk.c: buffer_index
    vdk_header,          \* disk.c: vdk_header, as its 12 raw bytes
    time_mark,           \* disk.c: time_mark of disk_io_interrupt()
    disk_img_file_type,  \* loader.c: disk_img_file_type
    disk_img_file,       \* loader.c: disk_img_file
    image,               \* bytes of the image file on the card
    halted,              \* rpi_halt() was called
    intr,                \* interrupt raised by the last call: none, nmi, firq
    xfer,                \* the command in progress, or ended by the last call
    written,             \* the bytes the command got through DATA so far
    last_wr,             \* the WRITE SECTOR completed last, while its bytes
                         \* are on the image
    idle_data,           \* the value written last to DATA while idle
    img_writes,          \* number of loader_disk_fwrite() calls
    cmds,                \* number of writes to CMD
    cmd_in,              \* the byte the last call wrote to CMD; -1 when the
                         \* last call was no write to CMD
    now,                 \* the timer reading of the last disk_io_interrupt()
    ticked,              \* the last call was disk_io_interrupt()
    tape,                \* tape.c: cas_stream_buffer and the statics of
                         \* io_handler_cas_tape() and cas_stream_...()
    trap_in,             \* the CPU state and the stack the last call of
                         \* io_handler_cas_tape() found
    sam_video_mode,      \* vdg.c: sam_video_mode
    pia_video_mode,      \* vdg.c: pia_video_mode
    current_mode,        \* vdg.c: current_mode
    prev_mode,           \* vdg.c: prev_mode
    rendered,            \* what the last call did if it was vdg_render():
                         \* the renderer it called, or halt; none otherwise
    reg_in,              \* the controller register the last call wrote and
                         \* the byte written, where a specification follows it
    file,                \* a file_param_t of a client of fat32.c
    fret,                \* the last fat32 call on file and what it returned
    loop,                \* dragon.c: the emulation loop of main(), the system
                         \* timer and the cold start flag of the ROM
    fb,                  \* vdg.c: a renderer at work: its inputs, its loop
                         \* counters, pixel_row and the stores to the frame
                         \* buffer
    ld,                  \* loader.c: loader() at work: its locals, the row
                         \* text_highlight() remembers, the text screen and
                         \* the EXEC vector in the emulated memory
    fs                   \* fat32.c: the sectors of a card, the sector cache
                         \* and two file_param_t structures

disk_vars ==
    << state, disk_registers, nmi_inhibit, buffer, buffer_index, vdk_header,
       time_mark, disk_img_file_type, disk_img_file, image, halted, intr,
       xfer, written, last_wr, idle_data, img_writes, cmds,
       cmd_in, now, ticked >>

tape_vars == << tape, trap_in >>

vdg_vars ==
    << sam_video_mode, pia_video_mode, current_mode, prev_mode, rendered >>

probe_vars == << reg_in >>

file_vars == << file, fret >>

\* The modules with a specification of their own
loop_vars == << loop >>

frame_vars == << fb >>

loader_vars == << ld >>

cache_vars == << fs >>

late_vars == << loader_vars, cache_vars >>

aside_vars == << file_vars, loop_vars, frame_vars, late_vars >>

core_vars == << disk_vars, tape_vars, vdg_vars, probe_vars >>

vars == << core_vars, aside_vars >>

\* The variables of the modules an action of the disk controller leaves alone
far_from_disk == << tape_vars, vdg_vars, aside_vars >>
not_disk_vars == << far_from_disk, probe_vars >>
not_tape_vars == << disk_vars, vdg_vars, probe_vars, aside_vars >>
not_vdg_vars == << disk_vars, tape_vars, probe_vars, aside_vars >>
not_file_vars == << core_vars, loop_vars, frame_vars, late_vars >>
not_frame_vars == << core_vars, file_vars, loop_vars, late_vars >>

Tracks == 0 .. MaxTrack
Sectors == 1 .. MaxSector

\* cmd: the byte written to CMD;
\* kind: none, RESTORE, SEEK, FORCE, READ, WRITE, READ_ID, WRITE_TRK;
\* track, sector: the registers when the command was written;
\* n: the number of bytes that went through DATA for it;
\* response: what the last DATA read of the command returned;
\* ended: the timer reading before the transfer ended, -1 until it ends
NoXfer ==
    [cmd |-> 0, kind |-> "none", track |-> 0, sector |-> 0, src |-> "none",
     n |-> 0, response |-> 0, ended |-> -1]
NoSector ==
    [valid |-> FALSE, track |-> 0, sector |-> 0, src |-> "none", bytes |-> << >>]

\* What mounting image k with the loader leaves behind (k = 0: none mounted).
loader_mount(k) ==
    IF k = 0
    THEN /\ disk_img_file_type = FILE_NONE
         /\ disk_img_file = ClosedFile
         /\ image = [id |-> 0, over |-> EmptyMap]
    ELSE /\ disk_img_file_type = FILE_VDK
         /\ disk_img_file = fat32_fopen(k)
         /\ image = [id |-> k, over |-> EmptyMap]

disk_init ==
    /\ disk_registers =
          [disk_status |-> WDTrack0, disk_track |-> 0, disk_sector |-> 1,
           disk_data |-> 0, motor_on |-> 0, disk_drive_num |-> 0,
           disk_double_density |-> 0]
    /\ nmi_inhibit = 1
    /\ state = DISK_IDLE

\* The machine after start-up with image k mounted
InitWith(k) ==
    /\ disk_init
    /\ loader_mount(k)
    /\ buffer = BufFill(0)
    /\ buffer_index = 0
    /\ vdk_header = [i \in 0 .. SIZEOF_disk_vdk_header_t - 1 |-> 0]
    /\ time_mark = 0
    /\ halted = FALSE
    /\ intr = "none"
    /\ xfer = NoXfer
    /\ written = << >>
    /\ last_wr = NoSector
    /\ idle_data = 0
    /\ img_writes = 0
    /\ cmds = 0
    /\ cmd_in = -1
    /\ now = 0
    /\ ticked = FALSE

\* The command a call finds ended is forgotten by that call; a FORCE
\* INTERRUPT is remembered until the next write to CMD.
KeepXfer ==
    IF state = DISK_IDLE /\ xfer.kind # "FORCE"
    THEN xfer' = NoXfer /\ written' = << >>
    ELSE UNCHANGED << xfer, written >>

\* A write to CMD that starts nothing
NoCommand ==
    IF state = DISK_IDLE
    THEN xfer' = NoXfer /\ written' = << >>
    ELSE UNCHANGED << xfer, written >>

\* One more byte of the command went through DATA
Moved(byte, done) ==
    xfer' = [xfer EXCEPT !.n = xfer.n + 1, !.response = byte,
                         !.ended = IF done THEN now ELSE @]

\* Variant: an image is reported whether one is mounted or not
loader_disk_img_type_mounted == FILE_VDK

\* loader_disk_img_type(): the type of the mounted image
loader_disk_img_type == disk_img_file_type

(***************************************************************************)
(* disk_intrq(): the interrupt request reaches the CPU as an NMI unless    *)
(* the drive control register inhibits it.                                 *)
(***************************************************************************)
\* Variant: the inhibit flag is not looked at
disk_intrq_unmasked(inhibit) == "nmi"
disk_intrq(inhibit) == IF inhibit = 0 THEN "nmi" ELSE "none"

Busy(status) == BitAnd(status, WDBusy) # 0

\* Variant: Track0 whatever the track
TypeIStatusTrack0(track) == WDTrack0

\* STATUS after a Type I command that leaves the head on the given track
TypeIStatus(track) == IF track = 0 THEN WDTrack0 ELSE 0

\* Variant: side and sector swapped
IdFieldSwapped(track, sector) ==
    [i \in 0 .. ID_FIELD_SIZE - 1 |->
        << track, sector, 1, SECTOR_SIZE - 1, 190, 239 >>[i + 1]]

\* The ID field READ ADDRESS puts in the buffer
IdField(track, sector) ==
    [i \in 0 .. ID_FIELD_SIZE - 1 |->
        << track, 1, sector, SECTOR_SIZE - 1, 190, 239 >>[i + 1]]

(***************************************************************************)
(* io_handler_wd2797_cmd_stat(), MEM_WRITE                                 *)
(***************************************************************************)
\* Common part of READ SECTOR, WRITE SECTOR and WRITE TRACK: read the VDK
\* header and compute the seek address of the addressed sector.
HeaderFile ==
    IF loader_disk_img_type = FILE_VDK
    THEN fat32_fread(fat32_fseek(disk_img_file, 0), SIZEOF_disk_vdk_header_t)
    ELSE disk_img_file

HeaderRead ==
    IF loader_disk_img_type = FILE_VDK
    THEN LET got == ReadBytes(fat32_fseek(disk_img_file, 0), image,
                              SIZEOF_disk_vdk_header_t)
         IN  [i \in DOMAIN vdk_header |->
                 IF i \in DOMAIN got THEN got[i] ELSE vdk_header[i]]
    ELSE vdk_header

\* Variant: the header size is left out of the seek address
CmdSeekAddressNoHeader ==
    disk_to_image_offset(disk_registers.disk_track, disk_registers.disk_sector)

CmdSeekAddress ==
    IF loader_disk_img_type = FILE_VDK
    THEN SeekAddress(disk_registers.disk_track, disk_registers.disk_sector,
                     HeaderRead)
    ELSE disk_to_image_offset(disk_registers.disk_track,
                              disk_registers.disk_sector)

SeekFile == fat32_fseek(HeaderFile, CmdSeekAddress)

Accept(data, kind, src) ==
    /\ xfer' = [cmd |-> data, kind |-> kind, track |-> disk_registers.disk_track,
                sector |-> disk_registers.disk_sector, src |-> src,
                n |-> 0, response |-> 0, ended |-> -1]
    /\ written' = << >>

CmdForceInt(data) ==
    /\ state' = DISK_IDLE
    /\ disk_registers' = [disk_registers EXCEPT !.disk_status = 0]
    /\ intr' = "none"
    /\ Accept(data, "FORCE", "none")
    /\ UNCHANGED << nmi_inhibit, buffer, buffer_index, vdk_header, time_mark,
                    disk_img_file, halted >>

\* Variant: a command written while Busy aborts the transfer
CmdIgnoredAborts ==
    /\ state' = DISK_IDLE
    /\ intr' = "none"
    /\ NoCommand
    /\ UNCHANGED << disk_registers, nmi_inhibit, buffer, buffer_index,
                    vdk_header, time_mark, disk_img_file, halted >>

CmdIgnored ==
    /\ intr' = "none"
    /\ NoCommand
    /\ UNCHANGED << state, disk_registers, nmi_inhibit, buffer, buffer_index,
                    vdk_header, time_mark, disk_img_file, halted >>

CmdRestore(data) ==
    /\ state' = DISK_IDLE
    /\ disk_registers' = [disk_registers EXCEPT !.disk_track = 0,
                                                !.disk_status = WDTrack0]
    /\ intr' = disk_intrq(nmi_inhibit)
    /\ Accept(data, "RESTORE", "none")
    /\ UNCHANGED << nmi_inhibit, buffer, buffer_index, vdk_header, time_mark,
                    disk_img_file, halted >>

CmdSeek(data) ==
    /\ state' = DISK_IDLE
    /\ disk_registers' =
          [disk_registers EXCEPT !.disk_track = disk_registers.disk_data,
                                 !.disk_status = TypeIStatus(disk_registers.disk_data)]
    /\ intr' = disk_intrq(nmi_inhibit)
    /\ Accept(data, "SEEK", "none")
    /\ UNCHANGED << nmi_inhibit, buffer, buffer_index, vdk_header, time_mark,
                    disk_img_file, halted >>

CmdReadSec(data) ==
    /\ state' = DISK_READ
    /\ vdk_header' = HeaderRead
    /\ buffer' = BufCopyIn(buffer, ReadBytes(SeekFile, image, SECTOR_SIZE),
                           ReadCount(SeekFile, SECTOR_SIZE))
    /\ disk_img_file' = fat32_fread(SeekFile, SECTOR_SIZE)
    /\ disk_registers' = [disk_registers EXCEPT !.disk_status = WDBusy]
    /\ buffer_index' = 0
    /\ intr' = "none"
    /\ Accept(data, "READ", "none")
    /\ UNCHANGED << nmi_inhibit, time_mark, halted >>

CmdWriteSec(data, src) ==
    /\ state' = DISK_WRITE
    /\ vdk_header' = HeaderRead
    /\ disk_img_file' = SeekFile
    /\ disk_registers' = [disk_registers EXCEPT !.disk_status = WDBusy]
    /\ buffer_index' = 0
    /\ intr' = "none"
    /\ Accept(data, "WRITE", src)
    /\ UNCHANGED << nmi_inhibit, buffer, time_mark, halted >>

CmdReadAddr(data) ==
    /\ state' = DISK_READ_ID
    /\ buffer' = BufCopyIn(buffer,
                           IdField(disk_registers.disk_track,
                                   disk_registers.disk_sector),
                           ID_FIELD_SIZE)
    /\ disk_registers' = [disk_registers EXCEPT !.disk_status = WDBusy]
    /\ buffer_index' = 0
    /\ intr' = "none"
    /\ Accept(data, "READ_ID", "none")
    /\ UNCHANGED << nmi_inhibit, vdk_header, time_mark, disk_img_file, halted >>

CmdWriteTrack(data) ==
    /\ state' = DISK_WRITE_TRK
    /\ vdk_header' = HeaderRead
    /\ disk_img_file' = HeaderFile
    /\ disk_registers' = [disk_registers EXCEPT !.disk_status = WDBusy]
    /\ buffer_index' = 0
    /\ intr' = "none"
    /\ Accept(data, "WRITE_TRK", "none")
    /\ UNCHANGED << nmi_inhibit, buffer, time_mark, halted >>

\* Variant: a byte that is no command is passed over
CmdBadPassedOver ==
    /\ intr' = "none"
    /\ NoCommand
    /\ UNCHANGED << state, disk_registers, nmi_inhibit, buffer, buffer_index,
                    vdk_header, time_mark, disk_img_file, halted >>

\* A byte that is no implemented command: diagnostic and rpi_halt()
CmdBad ==
    /\ state' = DISK_IDLE
    /\ halted' = TRUE
    /\ intr' = "none"
    /\ NoCommand
    /\ UNCHANGED << disk_registers, nmi_inhibit, buffer, buffer_index,
                    vdk_header, time_mark, disk_img_file >>

\* Variant: the four flag bits of a Type I command are masked
StepMaskedAllFlags(data) == BitAnd(data, 240)

\* data & WDCmdStepMask
StepMasked(data) == BitAnd(data, WDCmdStepMask)

io_handler_wd2797_cmd_stat(data, src) ==
    /\ ~halted
    /\ cmds' = cmds + 1
    /\ cmd_in' = data
    /\ ticked' = FALSE
    /\ UNCHANGED now
    /\ UNCHANGED << disk_img_file_type, image, last_wr, idle_data, img_writes >>
    /\ IF data = WDCmdForceInt THEN CmdForceInt(data)
       ELSE IF Busy(disk_registers.disk_status) THEN CmdIgnored
       ELSE IF StepMasked(data) = WDCmdRestore THEN CmdRestore(data)
       ELSE IF StepMasked(data) = WDCmdSeek THEN CmdSeek(data)
       ELSE IF data = WDCmdReadSec
            THEN IF loader_disk_img_type # FILE_NONE THEN CmdReadSec(data)
                 ELSE CmdIgnored
       ELSE IF data = WDCmdWriteSec
            THEN IF loader_disk_img_type # FILE_NONE THEN CmdWriteSec(data, src)
                 ELSE CmdIgnored
       ELSE IF data = WDCmdReadAddr THEN CmdReadAddr(data)
       ELSE IF data = WDCmdWriteTrack
            THEN IF loader_disk_img_type # FILE_NONE THEN CmdWriteTrack(data)
                 ELSE CmdIgnored
       ELSE CmdBad

(***************************************************************************)
(* io_handler_wd2797_track(), io_handler_wd2797_sector(), MEM_WRITE        *)
(***************************************************************************)
\* !(disk_status && WDBusy): a logical and of the status byte and a
\* constant that is not zero
RegisterWritable(status) == ~(status # 0 /\ WDBusy # 0)

io_handler_wd2797_track(data) ==
    /\ ~halted
    /\ cmd_in' = -1
    /\ ticked' = FALSE
    /\ UNCHANGED now
    /\ disk_registers' =
          IF RegisterWritable(disk_registers.disk_status)
          THEN [disk_registers EXCEPT !.disk_track = data]
          ELSE disk_registers
    /\ intr' = "none"
    /\ KeepXfer
    /\ UNCHANGED << state, nmi_inhibit, buffer, buffer_index, vdk_header,
                    time_mark, disk_img_file_type, disk_img_file, image,
                    halted, last_wr, idle_data, img_writes, cmds >>

io_handler_wd2797_sector(data) ==
    /\ ~halted
    /\ cmd_in' = -1
    /\ ticked' = FALSE
    /\ UNCHANGED now
    /\ disk_registers' =
          IF RegisterWritable(disk_registers.disk_status)
          THEN [disk_registers EXCEPT !.disk_sector = data]
          ELSE disk_registers
    /\ intr' = "none"
    /\ KeepXfer
    /\ UNCHANGED << state, nmi_inhibit, buffer, buffer_index, vdk_header,
                    time_mark, disk_img_file_type, disk_img_file, image,
                    halted, last_wr, idle_data, img_writes, cmds >>

(***************************************************************************)
(* io_handler_wd2797_data()                                                *)
(***************************************************************************)
\* STATUS after a byte of a transfer, and after its last byte
\* Variant: every byte also ends the command
AfterByteClearsBusy(status) == BitClear(status, WDDRQ + WDBusy)
AfterByte(status) == BitClear(status, WDDRQ)
\* Variant: the last byte leaves Busy set
AfterLastByteKeepsBusy(status) == AfterByte(status)
AfterLastByte(status) == BitClear(AfterByte(status), WDBusy)
AfterLastIdByte(status) == BitClear(AfterByte(status), WDBusy + WDDRQ)

\* Variant: the quad taken as three bytes
TrackInitBytesShort == INIT_BYTE_SKIP + SIZEOF_disk_init_sector_id - 1
TrackInitBytesLong == INIT_BYTE_SKIP + SIZEOF_disk_init_sector_id + 1

\* Number of DATA writes of a WRITE TRACK up to and including the ID quad
TrackInitBytes == INIT_BYTE_SKIP + SIZEOF_disk_init_sector_id

\* MEM_READ in DISK_READ (size = SECTOR_SIZE) and DISK_READ_ID
\* (size = ID_FIELD_SIZE); last is STATUS after the last byte
DataReadStream(size, last) ==
    LET byte == BufAt(buffer, buffer_index)
        done == buffer_index + 1 = size
    IN  /\ buffer_index' = buffer_index + 1
        /\ state' = IF done THEN DISK_IDLE ELSE state
        /\ disk_registers' =
              [disk_registers EXCEPT
                  !.disk_data = byte,
                  !.disk_status = IF done THEN last ELSE AfterByte(@)]
        /\ Moved(byte, done)
        /\ UNCHANGED << buffer, disk_img_file, image, last_wr, idle_data,
                        img_writes, written >>

DataRead ==
    /\ ~halted
    /\ cmd_in' = -1
    /\ ticked' = FALSE
    /\ UNCHANGED now
    /\ intr' = "none"
    /\ UNCHANGED << nmi_inhibit, vdk_header, time_mark, disk_img_file_type,
                    halted, cmds >>
    /\ CASE state = DISK_IDLE ->
              /\ KeepXfer
              /\ UNCHANGED << state, disk_registers, buffer, buffer_index,
                              disk_img_file, image, last_wr, idle_data,
                              img_writes >>
         [] state = DISK_READ ->
              DataReadStream(SECTOR_SIZE,
                             AfterLastByte(disk_registers.disk_status))
         [] state = DISK_READ_ID ->
              DataReadStream(ID_FIELD_SIZE,
                             AfterLastIdByte(disk_registers.disk_status))
         [] OTHER ->
              UNCHANGED << state, disk_registers, buffer, buffer_index,
                           disk_img_file, image, last_wr, idle_data,
                           img_writes, xfer, written >>

\* MEM_WRITE in DISK_WRITE
DataWriteSector(data) ==
    LET buf == BufSet(buffer, buffer_index, data)
        done == buffer_index + 1 = SECTOR_SIZE
    IN  /\ buffer' = buf
        /\ buffer_index' = buffer_index + 1
        /\ state' = IF done THEN DISK_IDLE ELSE state
        /\ disk_registers' =
              [disk_registers EXCEPT
                  !.disk_data = data,
                  !.disk_status = IF done THEN AfterLastByte(@) ELSE AfterByte(@)]
        /\ Moved(xfer.response, done)
        /\ written' = Append(written, data)
        /\ IF done
           THEN /\ image' = WriteFrom(BufBytes(buf, SECTOR_SIZE), disk_img_file,
                                      image, SECTOR_SIZE)
                /\ disk_img_file' = fat32_fwrite(disk_img_file, SECTOR_SIZE)
                /\ img_writes' = img_writes + 1
                /\ last_wr' = [valid |-> TRUE, track |-> xfer.track,
                               sector |-> xfer.sector, src |-> xfer.src,
                               bytes |-> Append(written, data)]
           ELSE UNCHANGED << image, disk_img_file, img_writes, last_wr >>

\* The format of a track: the buffer full of INIT_SEC_FILL goes to the image
InitTrack ==
    LET seek_address ==
            disk_to_image_offset(BufAt(buffer, INIT_BYTE_SKIP), 1)
            + HeaderSize(vdk_header)
        f == fat32_fseek(disk_img_file, seek_address)
        buf == BufFill(INIT_SEC_FILL)
    IN  /\ state' = DISK_IDLE
        /\ buffer' = buf
        /\ image' = WriteFrom(BufBytes(buf, BYTES_PER_TRACK), f, image,
                              BYTES_PER_TRACK)
        /\ disk_img_file' = fat32_fwrite(f, BYTES_PER_TRACK)
        /\ img_writes' = img_writes + 1
        /\ last_wr' = NoSector
        /\ UNCHANGED buffer_index

\* MEM_WRITE in DISK_WRITE_TRK
DataWriteTrack(data) ==
    /\ disk_registers' =
          [disk_registers EXCEPT
              !.disk_data = data,
              !.disk_status = IF buffer_index < TrackInitBytes
                              THEN AfterByte(@) ELSE AfterLastByte(@)]
    /\ Moved(xfer.response, buffer_index >= TrackInitBytes)
    /\ written' = Append(written, data)
    /\ IF buffer_index < INIT_BYTE_SKIP
       THEN /\ buffer_index' = buffer_index + 1
            /\ UNCHANGED << state, buffer, image, disk_img_file, img_writes,
                            last_wr >>
       ELSE IF buffer_index < TrackInitBytes
       THEN /\ buffer' = BufSet(buffer, buffer_index, data)
            /\ buffer_index' = buffer_index + 1
            /\ UNCHANGED << state, image, disk_img_file, img_writes, last_wr >>
       ELSE InitTrack

DataWrite(data) ==
    /\ ~halted
    /\ cmd_in' = -1
    /\ ticked' = FALSE
    /\ UNCHANGED now
    /\ intr' = "none"
    /\ UNCHANGED << nmi_inhibit, vdk_header, time_mark, disk_img_file_type,
                    halted, cmds >>
    /\ CASE state = DISK_IDLE ->
              /\ disk_registers' = [disk_registers EXCEPT !.disk_data = data]
              /\ idle_data' = data
              /\ KeepXfer
              /\ UNCHANGED << state, buffer, buffer_index, disk_img_file,
                              image, last_wr, img_writes >>
         [] state = DISK_WRITE ->
              DataWriteSector(data) /\ UNCHANGED idle_data
         [] state = DISK_WRITE_TRK ->
              DataWriteTrack(data) /\ UNCHANGED idle_data
         [] OTHER ->
              UNCHANGED << state, disk_registers, buffer, buffer_index,
                           disk_img_file, image, last_wr, idle_data,
                           img_writes, xfer, written >>

(***************************************************************************)
(* io_handler_drive_ctrl(): the operation type is not looked at            *)
(***************************************************************************)
\* Variant: bit 5 set masks the interrupt
NmiInhibitInverted(data) == IF BitAnd(data, NMIE) # 0 THEN 1 ELSE 0

\* nmi_inhibit after a write of data to the drive control register
NmiInhibit(data) == IF BitAnd(data, NMIE) # 0 THEN 0 ELSE 1

io_handler_drive_ctrl(data) ==
    /\ ~halted
    /\ cmd_in' = -1
    /\ ticked' = FALSE
    /\ UNCHANGED now
    /\ nmi_inhibit' = NmiInhibit(data)
    /\ disk_registers' =
          [disk_registers EXCEPT
              !.motor_on = IF BitAnd(data, MotorOn) # 0 THEN 1 ELSE 0,
              !.disk_double_density = IF BitAnd(data, SDensE) # 0 THEN 1 ELSE 0]
    /\ halted' = (BitAnd(data, DriveMask) # disk_registers.disk_drive_num)
    /\ intr' = "none"
    /\ KeepXfer
    /\ UNCHANGED << state, buffer, buffer_index, vdk_header, time_mark,
                    disk_img_file_type, disk_img_file, image, last_wr,
                    idle_data, img_writes, cmds >>

(***************************************************************************)
(* disk_io_interrupt(), called from the emulation loop; t is the reading   *)
(* of rpi_system_timer() during the call.                                  *)
(***************************************************************************)
\* Variant: the delay of a transfer also when idle
DurationOfTransfer(st) == DISK_INT_INTERVAL

Duration(st) ==
    IF st = DISK_IDLE THEN 250 * DISK_INT_INTERVAL ELSE DISK_INT_INTERVAL

\* Variant: the time since start-up instead of the time since time_mark
ElapsedSinceStart(t, mark, st) == t >= Duration(st)

\* time_mark && (rpi_system_timer() - time_mark) >= duration
Elapsed(t, mark, st) == mark # 0 /\ t - mark >= Duration(st)

\* Variant: the delay starts again with the interrupt request
MarkAfterIntrqRestarts(t) == t

\* time_mark = 0 of the idle branch
MarkAfterIntrq(t) == 0

disk_io_interrupt(t) ==
    LET mark == IF state # DISK_IDLE /\ time_mark = 0 THEN t ELSE time_mark
    IN  /\ ~halted
        /\ cmd_in' = -1
        /\ now' = t
        /\ ticked' = TRUE
        /\ IF Elapsed(t, mark, state)
           THEN IF state # DISK_IDLE
                THEN /\ time_mark' = t
                     /\ disk_registers' =
                           [disk_registers EXCEPT
                               !.disk_status = BitOr(@, WDDRQ)]
                     /\ intr' = "firq"
                ELSE /\ time_mark' = MarkAfterIntrq(t)
                     /\ intr' = disk_intrq(nmi_inhibit)
                     /\ UNCHANGED disk_registers
           ELSE /\ time_mark' = mark
                /\ intr' = "none"
                /\ UNCHANGED disk_registers
        /\ UNCHANGED << state, nmi_inhibit, buffer, buffer_index, vdk_header,
                        disk_img_file_type, disk_img_file, image, halted,
                        xfer, written, last_wr, idle_data, img_writes, cmds >>

(***************************************************************************)
(* Video display generator (vdg.c): the video mode                         *)
(***************************************************************************)
ALPHA_INTERNAL == 0
ALPHA_EXTERNAL == 1
SEMI_GRAPHICS_4 == 2
SEMI_GRAPHICS_6 == 3
SEMI_GRAPHICS_8 == 4
SEMI_GRAPHICS_12 == 5
SEMI_GRAPHICS_24 == 6
GRAPHICS_1C == 7
GRAPHICS_1R == 8
GRAPHICS_2C == 9
GRAPHICS_2R == 10
GRAPHICS_3C == 11
GRAPHICS_3R == 12
GRAPHICS_6C == 13
GRAPHICS_6R == 14
DMA == 15
UNDEFINED == 16

vdg_init ==
    /\ sam_video_mode = 0
    /\ pia_video_mode = 0
    /\ current_mode = ALPHA_INTERNAL
    /\ prev_mode = UNDEFINED
    /\ rendered = "none"

\* Variant: the colour modes and the resolution modes change places
GraphicsModeSwapped(gm) ==
    CASE gm = 0 -> GRAPHICS_1R
      [] gm = 2 -> GRAPHICS_1C
      [] gm = 4 -> GRAPHICS_2R
      [] gm = 6 -> GRAPHICS_2C
      [] gm = 8 -> GRAPHICS_3R
      [] gm = 10 -> GRAPHICS_3C
      [] gm = 12 -> GRAPHICS_6R
      [] gm = 14 -> GRAPHICS_6C

\* switch ( pia_video_mode & 0x0e )
GraphicsMode(gm) ==
    CASE gm = 0 -> GRAPHICS_1C
      [] gm = 2 -> GRAPHICS_1R
      [] gm = 4 -> GRAPHICS_2C
      [] gm = 6 -> GRAPHICS_2R
      [] gm = 8 -> GRAPHICS_3C
      [] gm = 10 -> GRAPHICS_3R
      [] gm = 12 -> GRAPHICS_6C
      [] gm = 14 -> GRAPHICS_6R

\* Variant: the branch of SEMI_GRAPHICS_24 tests sam_video_mode == 6
vdg_get_mode_sam6 ==
    IF sam_video_mode = 7
    THEN DMA
    ELSE IF BitAnd(pia_video_mode, 16) # 0
    THEN GraphicsMode(BitAnd(pia_video_mode, 14))
    ELSE IF sam_video_mode = 0 /\ BitAnd(pia_video_mode, 2) = 0
    THEN ALPHA_INTERNAL
    ELSE IF sam_video_mode = 0 /\ BitAnd(pia_video_mode, 2) # 0
    THEN SEMI_GRAPHICS_6
    ELSE IF sam_video_mode = 2 /\ BitAnd(pia_video_mode, 2) = 0
    THEN SEMI_GRAPHICS_8
    ELSE IF sam_video_mode = 4 /\ BitAnd(pia_video_mode, 2) = 0
    THEN SEMI_GRAPHICS_12
    ELSE IF sam_video_mode = 6 /\ BitAnd(pia_video_mode, 2) = 0
    THEN SEMI_GRAPHICS_24
    ELSE UNDEFINED

\* The second test of sam_video_mode == 4, the one of SEMI_GRAPHICS_24, is
\* never reached with a true condition; the final else (rpi_halt) is never
\* reached either, one of the two tests of bit 4 being true.
vdg_get_mode ==
    IF sam_video_mode = 7
    THEN DMA
    ELSE IF BitAnd(pia_video_mode, 16) # 0
    THEN GraphicsMode(BitAnd(pia_video_mode, 14))
    ELSE IF sam_video_mode = 0 /\ BitAnd(pia_video_mode, 2) = 0
    THEN ALPHA_INTERNAL
    ELSE IF sam_video_mode = 0 /\ BitAnd(pia_video_mode, 2) # 0
    THEN SEMI_GRAPHICS_6
    ELSE IF sam_video_mode = 2 /\ BitAnd(pia_video_mode, 2) = 0
    THEN SEMI_GRAPHICS_8
    ELSE IF sam_video_mode = 4 /\ BitAnd(pia_video_mode, 2) = 0
    THEN SEMI_GRAPHICS_12
    ELSE IF sam_video_mode = 4 /\ BitAnd(pia_video_mode, 2) = 0
    THEN SEMI_GRAPHICS_24
    ELSE UNDEFINED

\* Variant: the default of the switch draws text
RendererDefaultsToAlpha(mode) ==
    CASE mode \in {ALPHA_INTERNAL, SEMI_GRAPHICS_4} -> "alpha_semi4"
      [] mode \in {SEMI_GRAPHICS_6, ALPHA_EXTERNAL} -> "semi6"
      [] mode \in {GRAPHICS_1C, GRAPHICS_2C, GRAPHICS_3C, GRAPHICS_6C} ->
            "color_graph"
      [] mode \in {GRAPHICS_1R, GRAPHICS_2R, GRAPHICS_3R, GRAPHICS_6R} ->
            "resl_graph"
      [] mode \in {SEMI_GRAPHICS_8, SEMI_GRAPHICS_12, SEMI_GRAPHICS_24} ->
            "semi_ext"
      [] mode = DMA -> "halt"
      [] OTHER -> "alpha_semi4"

\* switch ( current_mode ) of vdg_render()
Renderer(mode) ==
    CASE mode \in {ALPHA_INTERNAL, SEMI_GRAPHICS_4} -> "alpha_semi4"
      [] mode \in {SEMI_GRAPHICS_6, ALPHA_EXTERNAL} -> "semi6"
      [] mode \in {GRAPHICS_1C, GRAPHICS_2C, GRAPHICS_3C, GRAPHICS_6C} ->
            "color_graph"
      [] mode \in {GRAPHICS_1R, GRAPHICS_2R, GRAPHICS_3R, GRAPHICS_6R} ->
            "resl_graph"
      [] mode \in {SEMI_GRAPHICS_8, SEMI_GRAPHICS_12, SEMI_GRAPHICS_24} ->
            "semi_ext"
      [] OTHER -> "halt"

vdg_render ==
    /\ current_mode' = vdg_get_mode
    /\ prev_mode' = vdg_get_mode
    /\ rendered' = Renderer(vdg_get_mode)
    /\ UNCHANGED << sam_video_mode, pia_video_mode >>

vdg_set_mode_sam(sam_mode) ==
    /\ sam_video_mode' = sam_mode
    /\ rendered' = "none"
    /\ UNCHANGED << pia_video_mode, current_mode, prev_mode >>

vdg_set_mode_pia(pia_mode) ==
    /\ pia_video_mode' = pia_mode
    /\ rendered' = "none"
    /\ UNCHANGED << sam_video_mode, current_mode, prev_mode >>

(***************************************************************************)
(* Cassette tape capture (tape.c): the trap on the ROM variable            *)
(* CasLastSine.  The statics of io_handler_cas_tape() and of the three     *)
(* cas_stream_ functions are the fields of one record, so that a call is a *)
(* function from record to record.  cas_stream_buffer is kept as the cells *)
(* written since the last memset; all other cells are 0.                   *)
(***************************************************************************)
CAS_STREAM_SIZE == 65536
CAS_STREAM_IDLE == 0
CAS_STREAM_LEADER == 1
CAS_STREAM_SYNC == 2
CAS_STREAM_HEADER == 3
CAS_STREAM_DATA == 4
CAS_STREAM_EOF == 5
CAS_STREAM_WRITE == 6

\* The program counter after LDA <CasLastSine and after STA <CasLastSine of
\* the ROM routine CasByteOut
PC_LDA_CasLastSine == 48668
PC_STA_CasLastSine == 48703

\* The ASCII letters and digits
isalnum(c) == c \in (48 .. 57) \cup (65 .. 90) \cup (97 .. 122)

\* cas_file after the loader opened a CAS file of n bytes
loader_mount_cas(n) ==
    IF n = 0
    THEN ClosedFile
    ELSE [file_is_open |-> TRUE, file_size |-> n, current_position |-> 0,
          eof_flag |-> FALSE]

\* tape_init() and the initial values of the statics.  Fields that are not
\* in the program: calls, the number of handler calls; captured, the bytes
\* taken off the stack so far; data_byte, the last of them; in_block, the
\* number of bytes the block in progress consumed; block_len, its first
\* byte; rejected, the number of bytes that left the state IDLE or brought
\* it back to IDLE out of order; out, the buffers handed to
\* loader_tape_fwrite().
tape_init(n) ==
    [tape_state |-> CAS_STREAM_IDLE, count |-> 0, i |-> 0,
     cas_stream_buffer |-> << >>, file_name |-> << >>,
     header_byte_count |-> -1, char_index |-> 0,
     data_byte_count |-> -1, eof_byte_count |-> -1,
     cas_file |-> loader_mount_cas(n),
     calls |-> 0, captured |-> << >>, data_byte |-> -1,
     in_block |-> 0, block_len |-> 0, rejected |-> 0, out |-> << >>]

\* cas_stream_buffer[i] = data_byte
StoreByte(buf, i, data_byte) ==
    IF i < Len(buf)
    THEN [buf EXCEPT ![i + 1] = data_byte]
    ELSE Append(buf, data_byte)

cas_stream_header(t, data_byte) ==
    IF t.header_byte_count < 0
    THEN [t EXCEPT !.header_byte_count = data_byte,
                   !.char_index = 0,
                   !.tape_state = CAS_STREAM_HEADER]
    ELSE LET n == t.header_byte_count - 1
         IN  IF n < 0
             THEN [t EXCEPT !.header_byte_count = n,
                            !.tape_state = CAS_STREAM_LEADER]
             ELSE IF t.char_index <= 7 /\ isalnum(data_byte)
             THEN [t EXCEPT !.header_byte_count = n,
                            !.file_name =
                               Append(SubSeq(t.file_name, 1, t.char_index),
                                      data_byte),
                            !.char_index = @ + 1,
                            !.tape_state = CAS_STREAM_HEADER]
             ELSE [t EXCEPT !.header_byte_count = n,
                            !.tape_state = CAS_STREAM_HEADER]

\* Variant: the block ends with its last payload byte
cas_stream_data_no_checksum(t, data_byte) ==
    IF t.data_byte_count < 0
    THEN [t EXCEPT !.data_byte_count = data_byte,
                   !.tape_state = CAS_STREAM_DATA]
    ELSE LET n == t.data_byte_count - 1
         IN  IF n <= 0
             THEN [t EXCEPT !.data_byte_count = -1,
                            !.tape_state = CAS_STREAM_LEADER]
             ELSE [t EXCEPT !.data_byte_count = n,
                            !.tape_state = CAS_STREAM_DATA]

cas_stream_data(t, data_byte) ==
    IF t.data_byte_count < 0
    THEN [t EXCEPT !.data_byte_count = data_byte,
                   !.tape_state = CAS_STREAM_DATA]
    ELSE LET n == t.data_byte_count - 1
         IN  IF n < 0
             THEN [t EXCEPT !.data_byte_count = n,
                            !.tape_state = CAS_STREAM_LEADER]
             ELSE [t EXCEPT !.data_byte_count = n,
                            !.tape_state = CAS_STREAM_DATA]

cas_stream_eof(t, data_byte) ==
    IF t.eof_byte_count < 0
    THEN [t EXCEPT !.eof_byte_count = data_byte,
                   !.tape_state = CAS_STREAM_EOF]
    ELSE LET n == t.eof_byte_count - 1
         IN  IF n < 0
             THEN [t EXCEPT !.eof_byte_count = n,
                            !.tape_state = CAS_STREAM_WRITE]
             ELSE [t EXCEPT !.eof_byte_count = n,
                            !.tape_state = CAS_STREAM_EOF]

\* Variant: the capture starts over
OutOfOrderRestart(t) ==
    [t EXCEPT !.tape_state = CAS_STREAM_IDLE, !.i = 0,
              !.cas_stream_buffer = << >>]

\* The else branches of the states LEADER and SYNC
OutOfOrder(t) ==
    [t EXCEPT !.tape_state = CAS_STREAM_IDLE]

\* Variant: the byte that ends the WRITE state is left out of the file
FlushWithoutLast(t) ==
    [t EXCEPT !.tape_state = CAS_STREAM_IDLE,
              !.out = Append(@, [bytes |-> SubSeq(t.cas_stream_buffer, 1,
                                                  t.i - 1),
                                 stored |-> ~WriteFails(t.cas_file)]),
              !.cas_file = fat32_fwrite(@, t.i - 1),
              !.i = 0,
              !.cas_stream_buffer = << >>]

\* The state WRITE: loader_tape_fwrite(cas_stream_buffer, i), i = 0, memset
Flush(t) ==
    [t EXCEPT !.tape_state = CAS_STREAM_IDLE,
              !.out = Append(@, [bytes |-> SubSeq(t.cas_stream_buffer, 1, t.i),
                                 stored |-> ~WriteFails(t.cas_file)]),
              !.cas_file = fat32_fwrite(@, t.i),
              !.i = 0,
              !.cas_stream_buffer = << >>]

\* switch ( tape_state )
StreamStep(t, data_byte) ==
    CASE t.tape_state = CAS_STREAM_IDLE ->
            IF data_byte = 85
            THEN [t EXCEPT !.tape_state = CAS_STREAM_LEADER]
            ELSE t
      [] t.tape_state = CAS_STREAM_LEADER ->
            IF data_byte = 85
            THEN [t EXCEPT !.tape_state = CAS_STREAM_LEADER]
            ELSE IF data_byte = 60
            THEN [t EXCEPT !.tape_state = CAS_STREAM_SYNC]
            ELSE OutOfOrder(t)
      [] t.tape_state = CAS_STREAM_SYNC ->
            IF data_byte = 0
            THEN [t EXCEPT !.tape_state = CAS_STREAM_HEADER]
            ELSE IF data_byte = 1
            THEN [t EXCEPT !.tape_state = CAS_STREAM_DATA]
            ELSE IF data_byte = 255
            THEN [t EXCEPT !.tape_state = CAS_STREAM_EOF]
            ELSE OutOfOrder(t)
      [] t.tape_state = CAS_STREAM_HEADER -> cas_stream_header(t, data_byte)
      [] t.tape_state = CAS_STREAM_DATA -> cas_stream_data(t, data_byte)
      [] t.tape_state = CAS_STREAM_EOF -> cas_stream_eof(t, data_byte)
      [] t.tape_state = CAS_STREAM_WRITE -> Flush(t)

\* Variant: the index goes on past the end of the buffer
NextIndexUnbounded(i) == i + 1

\* i++; if ( i == CAS_STREAM_SIZE ) i = CAS_STREAM_SIZE - 1;
NextIndex(i) ==
    IF i + 1 = CAS_STREAM_SIZE THEN CAS_STREAM_SIZE - 1 ELSE i + 1

BlockStates == {CAS_STREAM_HEADER, CAS_STREAM_DATA, CAS_STREAM_EOF}

\* The body of if ( count == 16 )
Capture(t, data_byte) ==
    LET stored ==
            [t EXCEPT !.count = 0,
                      !.cas_stream_buffer = StoreByte(@, t.i, data_byte),
                      !.i = NextIndex(t.i),
                      !.captured = Append(@, data_byte),
                      !.data_byte = data_byte]
        next == StreamStep(stored, data_byte)
        inside == t.tape_state \in BlockStates
    IN  [next EXCEPT
            !.in_block = IF inside /\ next.tape_state = t.tape_state
                         THEN @ + 1
                         ELSE 0,
            !.block_len = IF inside /\ t.in_block = 0 THEN data_byte ELSE @,
            !.rejected = IF /\ next.tape_state = CAS_STREAM_IDLE
                            /\ t.tape_state # CAS_STREAM_WRITE
                         THEN @ + 1
                         ELSE @]

\* Variant: every call counts
Counted_any_pc(t, pc) ==
    [t EXCEPT !.count = @ + 1, !.calls = @ + 1]

\* count++ of the calls the ROM routine makes
Counted(t, pc) ==
    IF pc = PC_LDA_CasLastSine \/ pc = PC_STA_CasLastSine
    THEN [t EXCEPT !.count = @ + 1, !.calls = @ + 1]
    ELSE [t EXCEPT !.calls = @ + 1]

\* One call of the handler with the CPU at pc, the stack pointer s and the
\* memory mem
io_handler_cas_tape(t, pc, s, mem) ==
    LET c == Counted(t, pc)
    IN  IF c.count = 16
        THEN Capture(c, mem[s])
        ELSE c

\* Two addresses the stack pointer S may hold
StackAddrs == {32766, 32767}
StackTop == 32767

NoTrap == [pc |-> 0, s |-> StackTop, mem |-> [a \in StackAddrs |-> 0]]

\* No CAS file mounted, nothing captured
TapeIdle == tape = tape_init(0) /\ trap_in = NoTrap

NoReg == [reg |-> "none", data |-> 0]

ProbeIdle == reg_in = NoReg

\* The other modules after their initialisation
NoCall == [op |-> "none", ret |-> 0]

\* The loop not entered
LoopIdle == loop = [pc |-> "off"]

\* No renderer followed
FrameIdle == fb = [pc |-> "off"]

FileIdle == file = ClosedFile /\ fret = NoCall

\* The loader not called, no card followed
LoaderIdle == ld = [pc |-> "off"]

CacheIdle == fs = [pc |-> "off"]

LateIdle == LoaderIdle /\ CacheIdle

AsideIdle == FileIdle /\ LoopIdle /\ FrameIdle /\ LateIdle

FarFromDiskIdle == TapeIdle /\ vdg_init /\ AsideIdle
OthersIdle == FarFromDiskIdle /\ ProbeIdle
AroundTapeIdle == InitWith(0) /\ vdg_init /\ ProbeIdle /\ AsideIdle
AroundVdgIdle == InitWith(0) /\ TapeIdle /\ ProbeIdle /\ AsideIdle
CoreIdle == InitWith(0) /\ TapeIdle /\ vdg_init /\ ProbeIdle

(***************************************************************************)
(* The emulated CPU and the emulation loop: the accesses and the timer     *)
(* readings the model explores.                                            *)
(***************************************************************************)
\* The command bytes: the seven implemented commands and one that is not
BadCmd == 15
LongCmds == {WDCmdReadSec, WDCmdWriteSec, WDCmdWriteTrack}
\* Bytes no branch of the command decoder takes: a STEP, READ SECTOR and
\* WRITE TRACK with other flag bits
BadCmds == {BadCmd, 2 * WDCmdSeek, WDCmdReadSec - SDensE, WDCmdWriteTrack - MotorOn}
ShortCmds == {WDCmdRestore, WDCmdSeek, WDCmdReadAddr, WDCmdForceInt} \cup BadCmds

\* A command that would write the image
WritesImage(data) == data \in {WDCmdWriteSec, WDCmdWriteTrack}

\* The buffer holds the sector a READ SECTOR has just delivered
SectorInBuffer ==
    state = DISK_IDLE /\ xfer.kind = "READ" /\ xfer.n = SECTOR_SIZE

\* Where the bytes of a WRITE SECTOR come from: a fixed pattern, or the
\* sector just read
WriteSrcs(data) ==
    IF data # WDCmdWriteSec THEN {"none"}
    ELSE IF SectorInBuffer THEN {"pattern", "echo"} ELSE {"pattern"}

SrcByte(src, i) ==
    IF src = "echo" THEN BufAt(buffer, i) ELSE (i * 5 + 1) % 256

\* Gap byte of a track being formatted
GapByte == 78

\* The bytes the CPU writes to DATA, by the state of the controller
DataBytes ==
    CASE state = DISK_WRITE -> {SrcByte(xfer.src, buffer_index)}
      [] state = DISK_WRITE_TRK ->
            IF buffer_index = INIT_BYTE_SKIP THEN Tracks
            ELSE IF buffer_index = INIT_BYTE_SKIP + 1 THEN {0}
            ELSE IF buffer_index < TrackInitBytes THEN {1}
            ELSE {GapByte}
      [] OTHER -> Tracks

\* Drive control bytes: interrupts masked, interrupts enabled, drive 1
CtrlBytes == {0, NMIE, 1}

\* Timer readings, in microseconds
Times == {DISK_INT_INTERVAL, 2 * DISK_INT_INTERVAL, 252 * DISK_INT_INTERVAL}

\* Between commands and during the first bytes of a transfer every access
\* is explored; after that, the transfer runs on without other accesses.
Quiet == state = DISK_IDLE \/ buffer_index <= MaxProbe

Reading == state \in {DISK_READ, DISK_READ_ID}

\* The accesses of the CPU to the controller's registers
Access(cmdset, maxcmds, maxlong, trks, secs) ==
    \/ \E data \in cmdset : \E src \in WriteSrcs(data) :
          /\ Quiet
          /\ cmds < maxcmds
          /\ data \in LongCmds => cmds < maxlong
          /\ WritesImage(data) => img_writes < MaxImgWrites
          /\ io_handler_wd2797_cmd_stat(data, src)
    \/ \E data \in trks : Quiet /\ io_handler_wd2797_track(data)
    \/ \E data \in secs : Quiet /\ io_handler_wd2797_sector(data)
    \/ (Quiet \/ Reading) /\ DataRead
    \/ \E data \in DataBytes : (Quiet \/ ~Reading) /\ DataWrite(data)

Init == (\E k \in {0, 1} : InitWith(k)) /\ OthersIdle

Next ==
    \/ /\ Access(LongCmds \cup ShortCmds, MaxCmds, MaxLongCmds, {MaxTrack},
                 {MaxSector})
       /\ UNCHANGED not_disk_vars
    \/ \E data \in CtrlBytes :
          Quiet /\ io_handler_drive_ctrl(data) /\ UNCHANGED not_disk_vars
    \/ \E t \in Times :
          /\ Quiet
          /\ t >= now
          /\ UNCHANGED not_disk_vars
          /\ disk_io_interrupt(t)

Spec == Init /\ [][Next]_vars

\* Sector transfers at every track and sector, without interrupts
InitXfer == (\E k \in ImageIds : InitWith(k)) /\ OthersIdle

NextXfer ==
    /\ Access(LongCmds \cup {WDCmdSeek}, MaxXferCmds, MaxXferCmds, Tracks,
              Sectors)
    /\ UNCHANGED not_disk_vars

SpecXfer == InitXfer /\ [][NextXfer]_vars

\* The interrupt timing: ticks at any byte of a READ ADDRESS, with timer
\* readings that fall between two pulses
TickTimes ==
    {DISK_INT_INTERVAL, DISK_INT_INTERVAL + DISK_INT_INTERVAL \div 2,
     2 * DISK_INT_INTERVAL, 251 * DISK_INT_INTERVAL, 252 * DISK_INT_INTERVAL}

InitTick == (\E k \in {0, 1} : InitWith(k)) /\ OthersIdle

NextTick ==
    \/ /\ Access(ShortCmds, MaxCmds, MaxLongCmds, {MaxTrack}, {MaxSector})
       /\ UNCHANGED not_disk_vars
    \/ \E data \in CtrlBytes :
          Quiet /\ io_handler_drive_ctrl(data) /\ UNCHANGED not_disk_vars
    \/ \E t \in TickTimes :
          /\ Quiet \/ state = DISK_READ_ID
          /\ t >= now
          /\ UNCHANGED not_disk_vars
          /\ disk_io_interrupt(t)

SpecTick == InitTick /\ [][NextTick]_vars

(***************************************************************************)
(* The register writes one by one: every Type I command byte, and writes   *)
(* to TRACK and SECTOR at every value of STATUS the commands leave         *)
(***************************************************************************)
TypeICmds == 0 .. 31
RegCmds == TypeICmds \cup {WDCmdReadAddr, WDCmdForceInt}
RegBytes == {0, 1, 2}

InitReg == (\E k \in {0, 1} : InitWith(k)) /\ OthersIdle

NextReg ==
    \/ \E data \in RegCmds :
          /\ cmds < MaxRegCmds
          /\ io_handler_wd2797_cmd_stat(data, "none")
          /\ reg_in' = [reg |-> "cmd", data |-> data]
          /\ UNCHANGED far_from_disk
    \/ \E data \in RegBytes :
          /\ io_handler_wd2797_track(data)
          /\ reg_in' = [reg |-> "track", data |-> data]
          /\ UNCHANGED far_from_disk
    \/ \E data \in RegBytes :
          /\ io_handler_wd2797_sector(data)
          /\ reg_in' = [reg |-> "sector", data |-> data]
          /\ UNCHANGED far_from_disk
    \/ /\ DataRead
       /\ reg_in' = NoReg
       /\ UNCHANGED far_from_disk
    \/ \E data \in RegBytes :
          /\ state = DISK_IDLE
          /\ DataWrite(data)
          /\ reg_in' = [reg |-> "data", data |-> data]
          /\ UNCHANGED far_from_disk

SpecReg == InitReg /\ [][NextReg]_vars

(***************************************************************************)
(* The completion interrupt: the four transfers, the drive control writes  *)
(* followed as reg_in, and timer readings up to two delays after a         *)
(* transfer, which the ticks find in progress in its first milliseconds    *)
(***************************************************************************)
NmiCmds == LongCmds \cup {WDCmdReadAddr, WDCmdForceInt}
NmiCtrlBytes == {0, NMIE}
NmiTimes ==
    {DISK_INT_INTERVAL, 2 * DISK_INT_INTERVAL, 252 * DISK_INT_INTERVAL,
     502 * DISK_INT_INTERVAL}

\* A tick with the timer reading t
Tick(t) ==
    /\ Quiet
    /\ t >= now
    /\ state # DISK_IDLE => t <= 2 * DISK_INT_INTERVAL
    /\ disk_io_interrupt(t)
    /\ UNCHANGED not_disk_vars

\* A tick later than the last one
TickLater == \E t \in NmiTimes : t > now /\ Tick(t)

InitNmi == (\E k \in {0, 1} : InitWith(k)) /\ OthersIdle

NextNmi ==
    \/ /\ Access(NmiCmds, MaxCmds, MaxLongCmds, {MaxTrack}, {MaxSector})
       /\ UNCHANGED not_disk_vars
    \/ \E data \in NmiCtrlBytes :
          /\ Quiet
          /\ io_handler_drive_ctrl(data)
          /\ reg_in' = [reg |-> "ctrl", data |-> data]
          /\ UNCHANGED far_from_disk
    \/ \E t \in NmiTimes : Tick(t)

SpecNmi == InitNmi /\ [][NextNmi]_vars

\* The emulation loop calls disk_io_interrupt() in every iteration, and the
\* timer goes on
SpecNmiLive == SpecNmi /\ WF_vars(TickLater)

(***************************************************************************)
(* The ROM writing to tape: the calls of the trap                          *)
(***************************************************************************)
\* The sizes of the CAS file the loader opened; 0: none
CasFileSizes == {0, 64}

\* The calls that were not counted
Stray(t) == t.calls - 16 * Len(t.captured) - t.count

\* A program counter outside CasByteOut
PC_Elsewhere == 32768

\* One access to CasLastSine
Trap(pc, s, mem) ==
    /\ tape' = io_handler_cas_tape(tape, pc, s, mem)
    /\ trap_in' = [pc |-> pc, s |-> s, mem |-> mem]
    /\ UNCHANGED not_tape_vars

TrapBytes == {85, 60}

InitTrap ==
    /\ AroundTapeIdle
    /\ \E n \in CasFileSizes : tape = tape_init(n)
    /\ trap_in = NoTrap

NextTrap ==
    \E pc \in {PC_LDA_CasLastSine, PC_STA_CasLastSine, PC_Elsewhere} :
       \E s \in StackAddrs : \E mem \in [StackAddrs -> TrapBytes] :
          /\ Len(tape.captured) < MaxTrapBytes
          /\ pc = PC_Elsewhere => Stray(tape) < MaxStray
          /\ Trap(pc, s, mem)

SpecTrap == InitTrap /\ [][NextTrap]_vars

\* The sixteen accesses CasByteOut makes for the byte A it pushed at s: for
\* each bit one LDA <CasLastSine and one STA <CasLastSine
RECURSIVE CasByteOutBits(_, _, _, _)
CasByteOutBits(t, s, mem, bits) ==
    IF bits = 0
    THEN t
    ELSE CasByteOutBits(
            io_handler_cas_tape(
               io_handler_cas_tape(t, PC_LDA_CasLastSine, s, mem),
               PC_STA_CasLastSine, s, mem),
            s, mem, bits - 1)

CasByteOut(A) ==
    LET mem == [a \in StackAddrs |-> IF a = StackTop THEN A ELSE 0]
    IN  /\ tape' = CasByteOutBits(tape, StackTop, mem, 8)
        /\ trap_in' = [pc |-> PC_STA_CasLastSine, s |-> StackTop, mem |-> mem]
        /\ UNCHANGED not_tape_vars

\* The bytes the stream goes on with: those the state accepts and, a
\* bounded number of times, others; in a block the lengths 0 and 1, a
\* letter in a header, the sync byte in the other blocks
StreamBytes(t) ==
    LET other == IF t.rejected < MaxRejected THEN {65, 60, 85} ELSE {}
    IN  CASE t.tape_state = CAS_STREAM_IDLE -> {85} \cup other
          [] t.tape_state = CAS_STREAM_LEADER -> {85, 60} \cup other
          [] t.tape_state = CAS_STREAM_SYNC -> {0, 1, 255} \cup other
          [] t.tape_state \in BlockStates ->
                IF t.in_block = 0
                THEN {0, 1}
                ELSE IF t.tape_state = CAS_STREAM_HEADER THEN {65} ELSE {60}
          [] t.tape_state = CAS_STREAM_WRITE -> {85, 65}

InitTape == InitTrap

NextTape ==
    \E A \in StreamBytes(tape) :
       /\ Len(tape.captured) < MaxStream
       /\ CasByteOut(A)

SpecTape == InitTape /\ [][NextTape]_vars

\* The statics after the ROM wrote a leader of k bytes 0x55 and nothing
\* else, k >= 1: the handler was called 16 * k times and stored k bytes
LongLeader(n, k) ==
    [tape_init(n) EXCEPT
        !.tape_state = CAS_STREAM_LEADER,
        !.i = k,
        !.cas_stream_buffer = [j \in 1 .. k |-> 85],
        !.captured = [j \in 1 .. k |-> 85],
        !.data_byte = 85,
        !.calls = 16 * k]

\* A leader that leaves three cells of cas_stream_buffer free
LeaderLengths == {CAS_STREAM_SIZE - 3}

InitFull ==
    /\ AroundTapeIdle
    /\ \E n \in CasFileSizes, k \in LeaderLengths : tape = LongLeader(n, k)
    /\ trap_in = [pc |-> PC_STA_CasLastSine, s |-> StackTop,
                  mem |-> [a \in StackAddrs |->
                              IF a = StackTop THEN 85 ELSE 0]]

\* The stream goes on for MaxFull bytes
NextFull ==
    \E A \in StreamBytes(tape) :
       /\ \E k \in LeaderLengths : Len(tape.captured) < k + MaxFull
       /\ CasByteOut(A)

SpecFull == InitFull /\ [][NextFull]_vars

(***************************************************************************)
(* The video mode set through the SAM and the PIA, and the refresh         *)
(***************************************************************************)
SamModes == 0 .. 7
PiaModes == 0 .. 31

InitVdg == AroundVdgIdle /\ vdg_init

NextVdg ==
    \/ \E sam_mode \in SamModes :
          /\ rendered # "halt"
          /\ vdg_set_mode_sam(sam_mode)
          /\ UNCHANGED not_vdg_vars
    \/ \E pia_mode \in PiaModes :
          /\ rendered # "halt"
          /\ vdg_set_mode_pia(pia_mode)
          /\ UNCHANGED not_vdg_vars
    \/ /\ rendered # "halt"
       /\ vdg_render
       /\ UNCHANGED not_vdg_vars

SpecVdg == InitVdg /\ [][NextVdg]_vars

(***************************************************************************)
(* A client of fat32.c: one file structure, opened on directory entries of *)
(* a few sizes, sought, read, written and closed                           *)
(***************************************************************************)
MaxFileSize == 6
EntrySizes == {0, 1, 3, 5}
SeekPositions == 0 .. MaxFileSize
BufferLengths == {0, 1, 2, 3}

Fopen(file_size) ==
    /\ fret' = [op |-> "fopen", ret |-> fat32_fopen_return(file)]
    /\ file' = IF file.file_is_open THEN file ELSE OpenEntry(file_size)

Fclose ==
    /\ fret' = [op |-> "fclose", ret |-> 0]
    /\ file' = ClosedFile

Fseek(byte_position) ==
    /\ fret' = [op |-> "fseek", ret |-> fat32_fseek_return(file, byte_position)]
    /\ file' = fat32_fseek(file, byte_position)

Fread(buffer_length) ==
    /\ fret' = [op |-> "fread", ret |-> fat32_fread_return(file, buffer_length)]
    /\ file' = fat32_fread(file, buffer_length)

Fwrite(buffer_length) ==
    /\ file.current_position + buffer_length <= MaxFileSize
    /\ fret' = [op |-> "fwrite", ret |-> fat32_fwrite_return(file, buffer_length)]
    /\ file' = fat32_fwrite(file, buffer_length)

InitFile == CoreIdle /\ FileIdle /\ LoopIdle /\ FrameIdle /\ LateIdle

NextFile ==
    \/ \E n \in EntrySizes : Fopen(n) /\ UNCHANGED not_file_vars
    \/ Fclose /\ UNCHANGED not_file_vars
    \/ \E pos \in SeekPositions : Fseek(pos) /\ UNCHANGED not_file_vars
    \/ \E n \in BufferLengths : Fread(n) /\ UNCHANGED not_file_vars
    \/ \E n \in BufferLengths : Fwrite(n) /\ UNCHANGED not_file_vars

SpecFile == InitFile /\ [][NextFile]_vars

(***************************************************************************)
(* The emulation loop of main(): dragon.c                                  *)
(*                                                                         *)
(* The system timer is a uint32_t of microseconds: a pair of 16 bit halves *)
(* here, so that the subtractions wrap as they do in the code.  The timer  *)
(* reads t0 when the loop is entered and t0 + elapsed later.               *)
(***************************************************************************)
MaxIters == 3
MaxPresses == 1

HalfWord == 65536
LONG_RESET_DELAY == 1500000
VDG_REFRESH_INTERVAL == 20000
ESCAPE_LOADER == 1
ColdStartFlag == 85

\* uint32_t arithmetic on << high half, low half >>
Add32(a, n) ==
    LET sum == a[2] + (n % HalfWord)
    IN  << (a[1] + (n \div HalfWord) + (sum \div HalfWord)) % HalfWord,
           sum % HalfWord >>

Sub32(a, b) ==
    LET borrow == IF a[2] < b[2] THEN 1 ELSE 0
    IN  << (a[1] - b[1] - borrow + 2 * HalfWord) % HalfWord,
           (a[2] - b[2] + HalfWord) % HalfWord >>

AtLeast32(a, n) ==
    \/ a[1] > n \div HalfWord
    \/ a[1] = n \div HalfWord /\ a[2] >= n % HalfWord

\* rpi_system_timer() after e microseconds in the loop
rpi_system_timer(l, e) == Add32(l.t0, e)

Less32(a, b) == a[1] < b[1] \/ (a[1] = b[1] /\ a[2] < b[2])

\* Variant: a difference that does not wrap, negative when the timer has
\* wrapped between the two readings
LongPressNoWrap(start_time, end_time, time) ==
    /\ ~Less32(end_time, start_time)
    /\ AtLeast32(Sub32(end_time, start_time), time)

\* (rpi_system_timer() - start_time) >= time
LongPress(start_time, end_time, time) ==
    AtLeast32(Sub32(end_time, start_time), time)

\* get_reset_state(time) when the button is found pressed at start_time and
\* released at end_time; held < 0 when it is not pressed
get_reset_state(start_time, end_time, time, held) ==
    IF held < 0 THEN 0
    ELSE IF LongPress(start_time, end_time, time) THEN 2
    ELSE 1

\* Variant: the refresh is due whatever the timer reads
RefreshDueAlways(l, e) == TRUE

\* (rpi_system_timer() - last_refresh_time) >= VDG_REFRESH_INTERVAL
RefreshDue(l, e) ==
    AtLeast32(Sub32(rpi_system_timer(l, e), l.last_refresh_time),
              VDG_REFRESH_INTERVAL)

\* Timer readings at the entry of the loop: one of them 1.51 s before the
\* timer wraps
BootTimes == {<< 0, 1000 >>, << 65512, 62864 >>}
\* Microseconds between two readings of the timer: around cpu_run(), of a
\* press of the reset button, in the loader, in vdg_render()
RunTimes == {1, 17000, 20000}
PressLengths == {1499999, 1500000}
LoaderTimes == {5000}
RenderTimes == {2000, 3000}

\* main() up to the loop: cpu_reset(1), last_refresh_time = rpi_system_timer()
LoopEntered(t0) ==
    loop = [pc |-> "cpu_run", t0 |-> t0, elapsed |-> 0,
            last_refresh_time |-> t0, refreshed_at |-> 0, vsync_at |-> -1,
            vsync_before |-> -1, mem71 |-> 0, reset_line |-> 1,
            ev |-> << "cpu_reset(1)" >>, held |-> -1, presses |-> 0,
            iters |-> 0]

\* cpu_run(): one instruction, which may be the ROM's store of the cold
\* start flag
LoopCpuRun(d, flag) ==
    /\ loop.pc = "cpu_run"
    /\ loop.iters < MaxIters
    /\ loop' = [loop EXCEPT !.pc = "reset",
                            !.elapsed = @ + d,
                            !.mem71 = IF flag THEN ColdStartFlag ELSE @,
                            !.held = -1,
                            !.ev = << "cpu_run" >>]

\* switch ( get_reset_state(LONG_RESET_DELAY) )
LoopReset(held) ==
    LET start_time == rpi_system_timer(loop, loop.elapsed)
        end_time == rpi_system_timer(loop, loop.elapsed + held)
        reset_type == get_reset_state(start_time, end_time, LONG_RESET_DELAY,
                                      held)
    IN  /\ loop.pc = "reset"
        /\ held >= 0 => loop.presses < MaxPresses
        /\ loop' = [loop EXCEPT
              !.pc = "disk",
              !.elapsed = IF held < 0 THEN @ ELSE @ + held,
              !.held = held,
              !.presses = IF held < 0 THEN @ ELSE @ + 1,
              !.mem71 = IF reset_type = 2 THEN 0 ELSE @,
              !.reset_line = IF reset_type = 0 THEN 0 ELSE 1,
              !.ev = CASE reset_type = 0 -> << "cpu_reset(0)" >>
                       [] reset_type = 1 -> << "cpu_reset(1)" >>
                       [] OTHER -> << "mem_write(0x71, 0)", "cpu_reset(1)" >>]

\* disk_io_interrupt()
LoopDisk ==
    /\ loop.pc = "disk"
    /\ loop' = [loop EXCEPT !.pc = "fkey", !.ev = << "disk_io_interrupt" >>]
    /\ disk_io_interrupt(loop.elapsed)

\* pia_function_key(), and loader() left with Q after its first vdg_render()
LoopFkey(emulator_escape_code, d) ==
    /\ loop.pc = "fkey"
    /\ IF emulator_escape_code = ESCAPE_LOADER
       THEN /\ loop' = [loop EXCEPT !.pc = "refresh",
                                    !.elapsed = @ + d,
                                    !.ev = << "loader", "vdg_render" >>]
            /\ vdg_render
       ELSE /\ loop' = [loop EXCEPT !.pc = "refresh", !.ev = << >>]
            /\ UNCHANGED vdg_vars

\* The refresh of the screen when it is due; vdg_render() takes d microseconds
LoopRefresh(d) ==
    /\ loop.pc = "refresh"
    /\ IF RefreshDue(loop, loop.elapsed)
       THEN /\ loop' = [loop EXCEPT
                  !.pc = "cpu_run",
                  !.iters = @ + 1,
                  !.last_refresh_time = rpi_system_timer(loop, loop.elapsed),
                  !.refreshed_at = loop.elapsed,
                  !.elapsed = @ + d,
                  !.vsync_at = loop.elapsed + d,
                  !.vsync_before = loop.vsync_at,
                  !.ev = << "vdg_render", "pia_vsync_irq" >>]
            /\ vdg_render
       ELSE /\ loop' = [loop EXCEPT !.pc = "cpu_run", !.iters = @ + 1,
                                    !.ev = << >>]
            /\ UNCHANGED vdg_vars

InitLoop ==
    /\ InitWith(0) /\ TapeIdle /\ vdg_init /\ ProbeIdle /\ FileIdle
    /\ FrameIdle /\ LateIdle
    /\ \E t0 \in BootTimes : LoopEntered(t0)

not_loop_disk_vars ==
    << tape_vars, vdg_vars, probe_vars, file_vars, frame_vars, late_vars >>
not_loop_vdg_vars ==
    << disk_vars, tape_vars, probe_vars, file_vars, frame_vars, late_vars >>
not_loop_vars == << core_vars, file_vars, frame_vars, late_vars >>

NextLoop ==
    \/ \E d \in RunTimes, flag \in BOOLEAN :
          LoopCpuRun(d, flag) /\ UNCHANGED not_loop_vars
    \/ \E held \in {-1} \cup PressLengths :
          LoopReset(held) /\ UNCHANGED not_loop_vars
    \/ LoopDisk /\ UNCHANGED not_loop_disk_vars
    \/ \E code \in {0, ESCAPE_LOADER}, d \in LoaderTimes :
          LoopFkey(code, d) /\ UNCHANGED not_loop_vdg_vars
    \/ \E d \in RenderTimes : LoopRefresh(d) /\ UNCHANGED not_loop_vdg_vars

SpecLoop == InitLoop /\ [][NextLoop]_vars

(***************************************************************************)
(* The renderers of vdg.c                                                  *)
(*                                                                         *)
(* A renderer is followed one scan line at a time.  Every store to the     *)
(* frame buffer is *screen_buffer++ = pixel, from screen_buffer = fbp on:  *)
(* fb.ptr is screen_buffer - fbp, the number of stores of the call, which  *)
(* went to the offsets 0 .. fb.ptr - 1 in this order.  fb.digest sums the  *)
(* bytes stored, weighted by their offsets.                                *)
(***************************************************************************)
MaxRenders == 2

SCREEN_WIDTH_PIX == 256
SCREEN_HEIGHT_PIX == 192
SCREEN_WIDTH_CHAR == 32
SCREEN_HEIGHT_CHAR == 16
FB_BLACK == 0
CHAR_SEMI_GRAPHICS == 128
CHAR_INVERSE == 64
SEMI_GRAPH4_MASK == 15
SEMI_GRAPH6_MASK == 63
SEMIG8_SEG_HEIGHT == 4
SEMIG12_SEG_HEIGHT == 6
SEMIG24_SEG_HEIGHT == 12
PIA_COLOR_SET == 1
DEF_COLOR_CSS_0 == 0
DEF_COLOR_CSS_1 == 4

\* dragon/font.h
FONT_WIDTH == 8
FONT_HEIGHT == 12

\* resolution[mode][RES_ROW_REP], resolution[mode][RES_MEM]
resolution ==
    << << 1, 1, 512 >>, << 1, 1, 512 >>, << 1, 1, 512 >>, << 1, 1, 512 >>,
       << 1, 1, 2048 >>, << 1, 1, 3072 >>, << 1, 1, 6144 >>,
       << 4, 3, 1024 >>, << 2, 3, 1024 >>, << 2, 3, 2048 >>,
       << 2, 2, 1536 >>, << 2, 2, 3072 >>, << 2, 1, 3072 >>,
       << 2, 1, 6144 >>, << 1, 1, 6144 >>, << 1, 1, 6144 >> >>

\* Variant: every mode with the memory of GRAPHICS_6R
RES_MEM_of_6R(mode) == resolution[GRAPHICS_6R + 1][3]

RES_ROW_REP(mode) == resolution[mode + 1][2]
RES_MEM(mode) == resolution[mode + 1][3]

\* colors[i] of the Linux build: green, yellow, light blue, red, white,
\* cyan, light magenta, brown
colors(i) == << 2, 14, 9, 4, 15, 3, 13, 6 >>[i + 1]

\* Bit k of the byte c
BitOf(c, k) == (c \div (2 ^ k)) % 2

\* The tables of dragon/font.h and dragon/semigraph.h are not part of the
\* sources at hand: a row of a glyph is a byte that depends on the table,
\* the character and the row
font_img5x7(char_index, font_row) == (char_index * 13 + font_row * 7 + 1) % 256
semi_graph_4(char_index, font_row) == (char_index * 17 + font_row * 5 + 2) % 256
semi_graph_6(char_index, font_row) == (char_index * 29 + font_row * 3 + 3) % 256

\* The video memory: RAM and ROM, which a read leaves as it is
VideoMemories == {1, 2}
MemByte(pat, address) ==
    (address * (2 * pat + 1) + (address \div 32) * 5 + 64 * pat) % 256

\* Variant: a memory that has changed between two calls
mem_read_changed(f, address) == (MemByte(f.pat, address) + 16 * f.calls) % 256

mem_read(f, address) == MemByte(f.pat, address)

\* The sum of the offsets' weights of the bytes stored: s[j] to offset
\* ptr + j, for j in lo .. hi
DigestPrime == 65521
Weigh(offset, pixel) == ((offset % 251) + 1) * (pixel + 1)

RECURSIVE Stored(_, _, _, _)
Stored(s, ptr, lo, hi) ==
    IF lo > hi THEN 0
    ELSE IF lo = hi THEN Weigh(ptr + lo, s[lo])
    ELSE Stored(s, ptr, lo, (lo + hi) \div 2)
         + Stored(s, ptr, (lo + hi) \div 2 + 1, hi)

\* fg_color, bg_color and bit_pattern of vdg_render_alpha_semi4() and of
\* vdg_render_semi_ext() for the character c
AlphaCell(c, font_row, pia) ==
    LET color_set == IF BitOf(pia, 0) = PIA_COLOR_SET
                     THEN colors(DEF_COLOR_CSS_1)
                     ELSE colors(DEF_COLOR_CSS_0)
    IN  IF c >= CHAR_SEMI_GRAPHICS
        THEN [fg |-> colors((c \div 16) % 8), bg |-> FB_BLACK,
              bits |-> semi_graph_4(c % (SEMI_GRAPH4_MASK + 1), font_row)]
        ELSE [fg |-> IF BitOf(c, 6) = 1 THEN FB_BLACK ELSE color_set,
              bg |-> IF BitOf(c, 6) = 1 THEN color_set ELSE FB_BLACK,
              bits |-> font_img5x7(c % CHAR_INVERSE, font_row)]

\* The same of vdg_render_semi6()
Semi6Cell(c, font_row, pia) ==
    [fg |-> colors((c \div 64) + 4 * BitOf(pia, 0)), bg |-> FB_BLACK,
     bits |-> semi_graph_6(c % (SEMI_GRAPH6_MASK + 1), font_row)]

\* Pixel font_col of a cell: pix_pos = 0x80 >> font_col
CellPixel(cell, font_col) ==
    IF BitOf(cell.bits, 7 - font_col) = 1 THEN cell.fg ELSE cell.bg

\* The stores of the loop over col, and in it over font_col, of a character
\* renderer: the scan line font_row of the characters at row_address
CharLine(f, row_address, font_row) ==
    [x \in 0 .. SCREEN_WIDTH_CHAR * FONT_WIDTH - 1 |->
        LET c == mem_read(f, (x \div FONT_WIDTH) + row_address)
        IN  CellPixel(IF f.pc = "semi6"
                      THEN Semi6Cell(c, font_row, f.pia)
                      ELSE AlphaCell(c, font_row, f.pia),
                      x % FONT_WIDTH)]

\* The renderer has stored the bytes line from fb.ptr on
Store(f, line, n) ==
    [f EXCEPT !.ptr = @ + n,
              !.digest = (@ + Stored(line, f.ptr, 0, n - 1)) % DigestPrime]

\* The call returns
Return(f) ==
    [f EXCEPT !.pc = "done", !.calls = @ + 1]

\* The state after vdg_init() and before the first call, for the inputs of
\* a call: the mode, pia_video_mode, video_ram_offset and the memory
FrameInit(mode, pia, offset, pat) ==
    fb = [pc |-> "idle", mode |-> mode, pia |-> pia, base |-> offset * 512,
          pat |-> pat, row |-> 0, seg_row |-> 0, scan_line |-> 0,
          font_row |-> 0, off |-> 0, buffer_index |-> 0,
          pixel_row |-> [j \in 0 .. SCREEN_WIDTH_PIX - 1 |-> 0],
          ptr |-> 0, digest |-> 0, overrun |-> FALSE, calls |-> 0,
          prev_ptr |-> -1, prev_digest |-> -1]

\* vdg_render(): the switch on the mode, and the initialisations of the
\* renderer it calls
FrameRender ==
    /\ fb.pc \in {"idle", "done"}
    /\ fb.calls < MaxRenders
    /\ fb' = [fb EXCEPT !.pc = Renderer(fb.mode),
                        !.row = 0, !.seg_row = 0, !.scan_line = 0,
                        !.font_row = 0, !.off = 0, !.buffer_index = 0,
                        !.ptr = 0, !.digest = 0,
                        !.prev_ptr = IF fb.pc = "done" THEN fb.ptr ELSE @,
                        !.prev_digest = IF fb.pc = "done" THEN fb.digest ELSE @]

\* vdg_render_alpha_semi4() and vdg_render_semi6(): one font_row of one row
LineOfChars ==
    LET row_address == fb.row * SCREEN_WIDTH_CHAR + fb.base
        stored == Store(fb, CharLine(fb, row_address, fb.font_row),
                        SCREEN_WIDTH_CHAR * FONT_WIDTH)
        last_line == fb.font_row + 1 = FONT_HEIGHT
        next == [stored EXCEPT !.font_row = IF last_line THEN 0 ELSE @ + 1,
                               !.row = IF last_line THEN @ + 1 ELSE @]
    IN  /\ fb.pc \in {"alpha_semi4", "semi6"}
        /\ fb' = IF next.row = SCREEN_HEIGHT_CHAR THEN Return(next) ELSE next

\* segments and seg_scan_lines of vdg_render_semi_ext()
Segments(mode) ==
    CASE mode = SEMI_GRAPHICS_8 -> SEMIG8_SEG_HEIGHT
      [] mode = SEMI_GRAPHICS_12 -> SEMIG12_SEG_HEIGHT
      [] mode = SEMI_GRAPHICS_24 -> SEMIG24_SEG_HEIGHT

SegScanLines(mode) == FONT_HEIGHT \div Segments(mode)

\* vdg_render_semi_ext(): one scan_line of one seg_row of one row
LineOfSegment ==
    LET row_address ==
            (fb.row * Segments(fb.mode) + fb.seg_row) * SCREEN_WIDTH_CHAR
            + fb.base
        stored == Store(fb, CharLine(fb, row_address, fb.font_row),
                        SCREEN_WIDTH_CHAR * FONT_WIDTH)
        last_line == fb.scan_line + 1 = SegScanLines(fb.mode)
        last_seg == last_line /\ fb.seg_row + 1 = Segments(fb.mode)
        next == [stored EXCEPT
                    !.font_row = IF @ + 1 = FONT_HEIGHT THEN 0 ELSE @ + 1,
                    !.scan_line = IF last_line THEN 0 ELSE @ + 1,
                    !.seg_row = IF last_seg THEN 0
                                ELSE IF last_line THEN @ + 1 ELSE @,
                    !.row = IF last_seg THEN @ + 1 ELSE @]
    IN  /\ fb.pc = "semi_ext"
        /\ fb' = IF next.row = SCREEN_HEIGHT_CHAR THEN Return(next) ELSE next

\* The pixels one byte of a graphics mode gives, in the order they are
\* stored in pixel_row
BytePixels(f, pixels_byte) ==
    IF f.pc = "resl_graph"
    THEN LET rep == IF f.mode # GRAPHICS_6R THEN 2 ELSE 1
             fg_color == IF BitOf(f.pia, 0) = PIA_COLOR_SET
                         THEN colors(DEF_COLOR_CSS_1)
                         ELSE colors(DEF_COLOR_CSS_0)
         IN  [k \in 0 .. 8 * rep - 1 |->
                IF BitOf(pixels_byte, 7 - (k \div rep)) = 1
                THEN fg_color ELSE FB_BLACK]
    ELSE LET rep == IF f.mode = GRAPHICS_1C THEN 4 ELSE 2
             color_set == 4 * BitOf(f.pia, 0)
         IN  [k \in 0 .. 4 * rep - 1 |->
                colors(((pixels_byte \div (2 ^ (6 - 2 * (k \div rep)))) % 4)
                       + color_set)]

\* How many pixels BytePixels gives
BytePixelCount(f) ==
    IF f.pc = "resl_graph"
    THEN IF f.mode # GRAPHICS_6R THEN 16 ELSE 8
    ELSE IF f.mode = GRAPHICS_1C THEN 16 ELSE 8

\* pixel_row[buffer_index++] = pixel for the pixels of one byte; a store
\* past the end of pixel_row is recorded as an overrun
FillPixels(f, pixels_byte) ==
    LET n == BytePixelCount(f)
        px == BytePixels(f, pixels_byte)
    IN  [f EXCEPT
            !.pixel_row = [j \in 0 .. SCREEN_WIDTH_PIX - 1 |->
                              IF j >= f.buffer_index /\ j < f.buffer_index + n
                              THEN px[j - f.buffer_index] ELSE @[j]],
            !.buffer_index = @ + n,
            !.overrun = @ \/ f.buffer_index + n > SCREEN_WIDTH_PIX]

\* The loop over i and j that stores pixel_row row_rep times
RECURSIVE StoreRows(_, _)
StoreRows(f, i) ==
    IF i = 0 THEN f
    ELSE StoreRows(Store(f, f.pixel_row, SCREEN_WIDTH_PIX), i - 1)

\* The loop over vdg_mem_offset from f.off on, up to the byte that fills
\* pixel_row, or to the end of the video memory
RECURSIVE FillRow(_)
FillRow(f) ==
    IF f.off >= RES_MEM(f.mode)
    THEN Return(f)
    ELSE LET g == FillPixels(f, mem_read(f, f.off + f.base))
         IN  IF g.buffer_index >= SCREEN_WIDTH_PIX
             THEN [StoreRows(g, RES_ROW_REP(f.mode)) EXCEPT
                      !.buffer_index = 0, !.off = @ + 1]
             ELSE FillRow([g EXCEPT !.off = @ + 1])

\* vdg_render_resl_graph() and vdg_render_color_graph(): the bytes of one
\* pixel_row
RowOfGraph ==
    /\ fb.pc \in {"resl_graph", "color_graph"}
    /\ fb' = FillRow(fb)

RenderableModes == ALPHA_INTERNAL .. GRAPHICS_6R
PiaBits == {0, 1}
VideoOffsets == {0, 63}

InitFrame ==
    /\ CoreIdle /\ FileIdle /\ LoopIdle /\ LateIdle
    /\ \E mode \in RenderableModes, pia \in PiaBits, offset \in VideoOffsets,
          pat \in VideoMemories :
          /\ (pia = 0) = (pat = 1)
          /\ (offset = 0) = (pat = 2)
          /\ FrameInit(mode, pia, offset, pat)

NextFrame ==
    \/ FrameRender /\ UNCHANGED not_frame_vars
    \/ LineOfChars /\ UNCHANGED not_frame_vars
    \/ LineOfSegment /\ UNCHANGED not_frame_vars
    \/ RowOfGraph /\ UNCHANGED not_frame_vars

SpecFrame == InitFrame /\ [][NextFrame]_vars

(***************************************************************************)
(* Properties                                                              *)
(***************************************************************************)
status == disk_registers.disk_status
DRQ(st) == BitAnd(st, WDDRQ) # 0

\* header_size of the mounted image, from bytes 2 and 3 of the file
ImageHeaderSize == ImgByte(image, 2) + 256 * ImgByte(image, 3)
ImageSides == ImgByte(image, 9)

\* Offset of a sector in a single-sided image
SectorOffset(track, sector) ==
    ImageHeaderSize + (track * SEC_PER_TRACK + (sector - 1)) * SECTOR_SIZE

\* Offset of a sector where the sides of a track follow each other
SidedOffset(track, side, sector) ==
    ImageHeaderSize + ((track * ImageSides) + side) * BYTES_PER_TRACK
    + (sector - 1) * SECTOR_SIZE

\* The sector, and the track, lie inside the image file
SectorInImage(track, sector) ==
    /\ image.id \in ImageIds
    /\ sector >= 1
    /\ SectorOffset(track, sector) + SECTOR_SIZE <= ImageSize(image.id)

TrackInImage(track) ==
    /\ image.id \in ImageIds
    /\ SectorOffset(track, 1) + BYTES_PER_TRACK <= ImageSize(image.id)

\* Steps: a command byte is written to CMD with Busy clear; one more byte
\* of the command in progress goes through DATA
Accepted(cmd) ==
    /\ ~Busy(status)
    /\ cmds' = cmds + 1
    /\ xfer'.kind # "none"
    /\ xfer'.cmd = cmd

Byte(kind) ==
    /\ xfer.kind = kind
    /\ xfer'.kind = kind
    /\ xfer'.n = xfer.n + 1

\* The interrupt request as the CPU sees it
Intrq == IF nmi_inhibit = 0 THEN "nmi" ELSE "none"

\* C1: whenever the controller is not idle, the Busy bit of STATUS is set
\* or a DRQ is pending.
C1_BusyOrDrqWhileActive == state # DISK_IDLE => (Busy(status) \/ DRQ(status))

C1_Witness ==
    /\ state = DISK_WRITE
    /\ xfer.n > 0
    /\ time_mark # 0
    /\ Busy(status)

\* C2: for a sector inside the mounted VDK image, the DATA reads of a
\* READ SECTOR return, in order, the image bytes from offset
\* header_size + (track*18 + (sector-1))*256 on, header_size taken from the
\* header of the image; the number of sides plays no part.
C2_ReadSectorBytes ==
    (/\ xfer.kind = "READ"
     /\ xfer.n > 0
     /\ SectorInImage(xfer.track, xfer.sector))
    => xfer.response =
          ImgByte(image, SectorOffset(xfer.track, xfer.sector) + xfer.n - 1)

C2_Witness ==
    /\ xfer.kind = "READ"
    /\ xfer.n = SECTOR_SIZE
    /\ xfer.track = MaxTrack
    /\ xfer.sector = MaxSector
    /\ ImageSides = 2
    /\ SectorInImage(xfer.track, xfer.sector)

\* C2 as stated: the bytes come from offset
\* header_size + ((track*sides)+side)*18*256 + (sector-1)*256, for a side of
\* the image.
C2_AsStated ==
    (/\ xfer.kind = "READ"
     /\ xfer.n > 0
     /\ SectorInImage(xfer.track, xfer.sector))
    => \E side \in 0 .. ImageSides - 1 :
          xfer.response =
             ImgByte(image,
                     SidedOffset(xfer.track, side, xfer.sector) + xfer.n - 1)

\* C3: an accepted READ SECTOR leaves the controller Busy in state READ;
\* each DATA read clears DRQ and raises no interrupt; the 256th read leaves
\* the state IDLE with Busy 0; the interrupt request of the completed read
\* comes from the disk_io_interrupt() call that finds the controller IDLE
\* 250 ms after time_mark, and is an NMI when nmi_inhibit = 0.
C3_Step ==
    /\ Accepted(WDCmdReadSec) =>
          state' = DISK_READ /\ disk_registers'.disk_status = WDBusy
    /\ Byte("READ") =>
          /\ ~DRQ(disk_registers'.disk_status)
          /\ intr' = "none"
          /\ IF xfer'.n = SECTOR_SIZE
             THEN state' = DISK_IDLE /\ ~Busy(disk_registers'.disk_status)
             ELSE state' = DISK_READ /\ Busy(disk_registers'.disk_status)
    /\ (state = DISK_IDLE /\ time_mark # 0 /\ time_mark' = 0) => intr' = Intrq
    /\ (state = DISK_IDLE /\ intr' = "nmi" /\ cmds' = cmds) =>
          time_mark # 0 /\ time_mark' = 0 /\ nmi_inhibit = 0

C3_ReadSectorProtocol == [][C3_Step]_vars

C3_Witness ==
    /\ xfer.kind = "READ"
    /\ xfer.n = SECTOR_SIZE
    /\ state = DISK_IDLE
    /\ intr = "nmi"
    /\ time_mark = 0

\* C3 as stated: with nmi_inhibit = 0 the 256th DATA read raises the NMI.
C3_AsStated ==
    [][(Byte("READ") /\ xfer'.n = SECTOR_SIZE /\ nmi_inhibit = 0)
           => intr' = "nmi"]_vars

\* The image after a step holds data[1 .. n] from offset pos on and is
\* unchanged everywhere else.
StoredAt(pos, data, n) ==
    /\ \A i \in 0 .. n - 1 : ImgByte(image', pos + i) = data[i + 1]
    /\ \A o \in (DOMAIN image'.over) \cup (DOMAIN image.over) :
          (o < pos \/ o >= pos + n) => ImgByte(image', o) = ImgByte(image, o)
    /\ image'.id = image.id

\* C4: an accepted WRITE SECTOR leaves the controller Busy in state WRITE;
\* the first 255 DATA writes leave the image alone; the 256th makes exactly
\* one image write that stores the 256 bytes written to DATA, in order, at
\* header_size + (track*18 + (sector-1))*256 for the TRACK and SECTOR of the
\* time the command was written, then Busy is clear and the state IDLE.
C4_Step ==
    /\ Accepted(WDCmdWriteSec) =>
          /\ state' = DISK_WRITE
          /\ disk_registers'.disk_status = WDBusy
          /\ xfer'.track = disk_registers.disk_track
          /\ xfer'.sector = disk_registers.disk_sector
    /\ Byte("WRITE") =>
          IF xfer'.n = SECTOR_SIZE
          THEN /\ img_writes' = img_writes + 1
               /\ SectorInImage(xfer.track, xfer.sector) =>
                     StoredAt(SectorOffset(xfer.track, xfer.sector), written',
                              SECTOR_SIZE)
               /\ Len(written') = SECTOR_SIZE
               /\ state' = DISK_IDLE
               /\ ~Busy(disk_registers'.disk_status)
          ELSE /\ img_writes' = img_writes
               /\ image' = image
               /\ state' = DISK_WRITE
               /\ Busy(disk_registers'.disk_status)

C4_WriteSectorProtocol == [][C4_Step]_vars

C4_Witness ==
    /\ xfer.kind = "WRITE"
    /\ xfer.n = SECTOR_SIZE
    /\ xfer.track = MaxTrack
    /\ xfer.sector = MaxSector
    /\ img_writes = 1
    /\ state = DISK_IDLE
    /\ ImgByte(image, SectorOffset(MaxTrack, MaxSector) + 1) = written[2]

\* C5: a READ SECTOR of the track and sector of the last completed WRITE
\* SECTOR returns the bytes that were written; when they were the bytes of
\* a READ SECTOR of that sector just before, it returns the original bytes.
C5_ReadBack ==
    (/\ xfer.kind = "READ"
     /\ xfer.n > 0
     /\ last_wr.valid
     /\ last_wr.track = xfer.track
     /\ last_wr.sector = xfer.sector
     /\ SectorInImage(xfer.track, xfer.sector))
    => /\ xfer.response = last_wr.bytes[xfer.n]
       /\ last_wr.src = "echo" =>
             xfer.response =
                OrigByte(image.id,
                         SectorOffset(xfer.track, xfer.sector) + xfer.n - 1)

C5_Witness ==
    /\ xfer.kind = "READ"
    /\ xfer.n = SECTOR_SIZE
    /\ last_wr.valid
    /\ last_wr.track = xfer.track
    /\ last_wr.sector = xfer.sector
    /\ last_wr.src = "echo"
    /\ SectorInImage(xfer.track, xfer.sector)

\* A READ SECTOR of a sector rewritten with other bytes than it held
C5_WitnessPattern ==
    /\ xfer.kind = "READ"
    /\ xfer.n = SECTOR_SIZE
    /\ last_wr.valid
    /\ last_wr.track = xfer.track
    /\ last_wr.sector = xfer.sector
    /\ last_wr.src = "pattern"
    /\ xfer.response # OrigByte(image.id,
                                SectorOffset(xfer.track, xfer.sector) + xfer.n - 1)

\* C6: a RESTORE written to CMD while Busy is clear sets TRACK to 0 and
\* STATUS to exactly the Track0 bit, leaves the state IDLE and issues the
\* interrupt request, an NMI when nmi_inhibit = 0.
C6_Step ==
    Accepted(WDCmdRestore) =>
       /\ disk_registers'.disk_track = 0
       /\ disk_registers'.disk_status = WDTrack0
       /\ state' = DISK_IDLE
       /\ intr' = Intrq

C6_Restore == [][C6_Step]_vars

C6_Witness ==
    /\ xfer.cmd = WDCmdRestore
    /\ xfer.kind = "RESTORE"
    /\ xfer.track # 0
    /\ disk_registers.disk_track = 0
    /\ status = WDTrack0
    /\ intr = "nmi"

\* C7: a SEEK written to CMD while Busy is clear copies the DATA register,
\* which holds the byte written to DATA or moved through DATA by a transfer
\* last, into TRACK, sets STATUS to Track0 when the new track is 0 and to 0
\* otherwise, leaves the state IDLE and issues the interrupt request.
C7_Step ==
    Accepted(WDCmdSeek) =>
       /\ disk_registers'.disk_track = disk_registers.disk_data
       /\ disk_registers'.disk_status =
             (IF disk_registers'.disk_track = 0 THEN WDTrack0 ELSE 0)
       /\ state' = DISK_IDLE
       /\ intr' = Intrq

C7_Seek == [][C7_Step]_vars

C7_Witness ==
    /\ xfer.cmd = WDCmdSeek
    /\ xfer.kind = "SEEK"
    /\ disk_registers.disk_track = 239
    /\ idle_data # 239
    /\ status = 0
    /\ intr = "nmi"

\* C7 as stated: the track a SEEK sets is the value written last to DATA
\* while the controller was idle.
C7_AsStated ==
    [][Accepted(WDCmdSeek) => disk_registers'.disk_track = idle_data]_vars

\* C8: a FORCE INTERRUPT leaves the state IDLE and STATUS 0 in every state
\* of the controller, and no interrupt is raised by the write or by any
\* later call as long as no other command is written.
C8_Step ==
    /\ (cmds' = cmds + 1 /\ xfer'.cmd = WDCmdForceInt /\ xfer'.kind = "FORCE") =>
          /\ state' = DISK_IDLE
          /\ disk_registers'.disk_status = 0
    /\ xfer'.kind = "FORCE" => intr' = "none"

C8_ForceInterruptQuiet == [][C8_Step]_vars

\* C9: the DATA reads of a READ ADDRESS return TRACK, 1, SECTOR, 0xFF, 0xBE
\* and 0xEF, for the TRACK and SECTOR of the time the command was written;
\* until the sixth read the state is READ_ID, after it the state is IDLE
\* with Busy and DRQ clear.
C9_ReadAddress ==
    xfer.kind = "READ_ID" =>
       /\ xfer.n > 0 =>
             xfer.response =
                << xfer.track, 1, xfer.sector, 255, 190, 239 >>[xfer.n]
       /\ xfer.n < 6 => state = DISK_READ_ID /\ Busy(status)
       /\ xfer.n = 6 => state = DISK_IDLE /\ ~Busy(status) /\ ~DRQ(status)

C9_Witness ==
    /\ xfer.kind = "READ_ID"
    /\ xfer.n = 6
    /\ xfer.track = MaxTrack
    /\ xfer.sector = MaxSector
    /\ xfer.response = 239

\* C10: after an accepted WRITE TRACK the first 111 DATA writes leave the
\* buffer alone, the next four are stored as the ID quad, and none of these
\* 115 writes touches the image or ends the command; the 116th DATA write
\* stores 4608 bytes of 0xE5 at header_size + track*18*256 for the track of
\* the quad, clears Busy and leaves the state IDLE.
C10_Step ==
    /\ Accepted(WDCmdWriteTrack) =>
          state' = DISK_WRITE_TRK /\ disk_registers'.disk_status = WDBusy
    /\ Byte("WRITE_TRK") =>
          /\ xfer'.n <= 111 => buffer' = buffer
          /\ (xfer'.n > 111 /\ xfer'.n <= 115) =>
                BufAt(buffer', xfer.n) = written'[xfer'.n]
          /\ IF xfer'.n <= 115
             THEN /\ image' = image
                  /\ img_writes' = img_writes
                  /\ state' = DISK_WRITE_TRK
                  /\ Busy(disk_registers'.disk_status)
             ELSE /\ xfer'.n = 116
                  /\ img_writes' = img_writes + 1
                  /\ TrackInImage(written[112]) =>
                        StoredAt(SectorOffset(written[112], 1),
                                 [i \in 1 .. BYTES_PER_TRACK |-> 229],
                                 BYTES_PER_TRACK)
                  /\ state' = DISK_IDLE
                  /\ ~Busy(disk_registers'.disk_status)

C10_WriteTrack == [][C10_Step]_vars

C10_Witness ==
    /\ xfer.kind = "WRITE_TRK"
    /\ xfer.n = 116
    /\ written[112] = MaxTrack
    /\ xfer.track # MaxTrack
    /\ state = DISK_IDLE
    /\ ImgByte(image, SectorOffset(MaxTrack, 1) + BYTES_PER_TRACK - 1) = 229
    /\ ImgByte(image, SectorOffset(MaxTrack, 1) - 1) # 229

\* C10 as stated: the format happens once the quad has been received, with
\* the 115th DATA write.
C10_AsStated ==
    [][(Byte("WRITE_TRK") /\ xfer'.n = 115) =>
          /\ state' = DISK_IDLE
          /\ img_writes' = img_writes + 1
          /\ ~Busy(disk_registers'.disk_status)]_vars

\* A step that writes the byte to CMD
CmdWrite(byte) == cmds' = cmds + 1 /\ cmd_in' = byte

NoImage == disk_img_file_type = FILE_NONE

\* C11: with no image mounted and Busy clear, READ SECTOR, WRITE SECTOR and
\* WRITE TRACK written to CMD have no effect: the state stays IDLE, the
\* registers are unchanged and no interrupt is raised; RESTORE, SEEK and
\* READ ADDRESS are carried out as with an image.
C11_Step ==
    (NoImage /\ ~Busy(status)) =>
       /\ (\E c \in {WDCmdReadSec, WDCmdWriteSec, WDCmdWriteTrack} : CmdWrite(c)) =>
             /\ state' = DISK_IDLE
             /\ disk_registers' = disk_registers
             /\ intr' = "none"
             /\ buffer_index' = buffer_index
       /\ CmdWrite(WDCmdRestore) =>
             /\ disk_registers'.disk_track = 0
             /\ disk_registers'.disk_status = WDTrack0
             /\ intr' = Intrq
       /\ CmdWrite(WDCmdSeek) =>
             /\ disk_registers'.disk_track = disk_registers.disk_data
             /\ intr' = Intrq
       /\ CmdWrite(WDCmdReadAddr) =>
             /\ state' = DISK_READ_ID
             /\ disk_registers'.disk_status = WDBusy

C11_NoImageCommands == [][C11_Step]_vars

C11_Witness ==
    /\ NoImage
    /\ cmd_in \in {WDCmdReadSec, WDCmdWriteSec, WDCmdWriteTrack}
    /\ nmi_inhibit = 0
    /\ time_mark = 0
    /\ state = DISK_IDLE
    /\ status = WDTrack0

\* C11 as stated: with no image mounted every byte written to CMD other
\* than FORCE INTERRUPT leaves the state IDLE and STATUS, TRACK, SECTOR and
\* the interrupt lines unchanged.
C11_AsStated ==
    [][(NoImage /\ cmds' = cmds + 1 /\ cmd_in' # WDCmdForceInt) =>
          /\ state' = DISK_IDLE
          /\ disk_registers'.disk_status = disk_registers.disk_status
          /\ disk_registers'.disk_track = disk_registers.disk_track
          /\ disk_registers'.disk_sector = disk_registers.disk_sector
          /\ intr' = "none"]_vars

\* C12: a call raises the cartridge FIRQ only while the controller is not
\* idle and with time_mark set at least 1000 us before the call, time_mark
\* being the time of the previous pulse or of the tick that first found
\* the controller not idle; DRQ is set by such a call and by no other; a
\* tick that finds the controller idle leaves STATUS alone.
C12_Step ==
    /\ intr' = "firq" =>
          /\ ticked'
          /\ state # DISK_IDLE
          /\ time_mark # 0
          /\ now' - time_mark >= 1000
          /\ time_mark' = now'
          /\ DRQ(disk_registers'.disk_status)
    /\ (DRQ(disk_registers'.disk_status) /\ ~DRQ(status)) => intr' = "firq"
    /\ (ticked' /\ state = DISK_IDLE) =>
          /\ intr' # "firq"
          /\ disk_registers' = disk_registers
    /\ (ticked' /\ state # DISK_IDLE /\ time_mark = 0) =>
          /\ intr' = "none"
          /\ time_mark' = now'

C12_DrqPulse == [][C12_Step]_vars

C12_Witness ==
    /\ state = DISK_READ_ID
    /\ intr = "firq"
    /\ DRQ(status)
    /\ xfer.n > 0
    /\ time_mark = 2 * DISK_INT_INTERVAL

\* A tick that finds the transfer less than 1000 us after the last pulse
C12_WitnessEarly ==
    /\ state = DISK_READ_ID
    /\ ticked
    /\ intr = "none"
    /\ time_mark # 0
    /\ now > time_mark

\* C13: with the controller idle, a tick raises the NMI exactly when
\* nmi_inhibit = 0, time_mark is set and at least 250 ms have passed since
\* time_mark, the time of the last DRQ pulse or of the tick that first
\* found the transfer; that tick clears time_mark, so that without a tick
\* during the transfer no NMI follows it.
C13_Step ==
    (ticked' /\ state = DISK_IDLE) =>
       /\ intr' = "nmi" <=>
             (nmi_inhibit = 0 /\ time_mark # 0 /\ now' - time_mark >= 250000)
       /\ time_mark' =
             (IF time_mark # 0 /\ now' - time_mark >= 250000
              THEN 0 ELSE time_mark)

C13_CompletionNmi == [][C13_Step]_vars

C13_Witness ==
    /\ xfer.kind = "READ_ID"
    /\ xfer.n = ID_FIELD_SIZE
    /\ xfer.ended > 0
    /\ state = DISK_IDLE
    /\ ticked
    /\ intr = "nmi"
    /\ time_mark = 0

\* C13 as stated: no tick raises the NMI earlier than 250 ms after the
\* controller entered IDLE, which it did no earlier than the timer reading
\* before the last byte of the transfer.
C13_AsStated ==
    [][(ticked' /\ intr' = "nmi" /\ xfer.ended >= 0) =>
          now' - xfer.ended >= 250000]_vars

\* C14: a byte that is no implemented command, written to CMD while Busy
\* is clear, halts the emulator: the state is IDLE, the registers are as
\* before and no call does anything from then on; written while Busy is
\* set, the byte is passed over and the emulator runs on.
C14_Step ==
    /\ ~halted
    /\ \A c \in BadCmds :
          CmdWrite(c) =>
             IF Busy(status)
             THEN /\ ~halted'
                  /\ state' = state
                  /\ disk_registers' = disk_registers
                  /\ intr' = "none"
             ELSE /\ halted'
                  /\ state' = DISK_IDLE
                  /\ disk_registers' = disk_registers
                  /\ intr' = "none"
    /\ (cmds' = cmds + 1 /\ halted') => (cmd_in' \in BadCmds /\ ~Busy(status))

C14_UnknownCommandHalts == [][C14_Step]_vars

C14_Witness ==
    /\ halted
    /\ cmd_in = WDCmdReadSec - SDensE
    /\ xfer.kind = "none"
    /\ cmds > 1

\* An unknown byte passed over by a busy controller
C14_WitnessBusy ==
    /\ ~halted
    /\ cmd_in \in BadCmds
    /\ Busy(status)
    /\ state = DISK_READ_ID

\* C14 as stated: an unknown byte written to CMD halts the emulator in every
\* state of the controller.
C14_AsStated == [][\A c \in BadCmds : CmdWrite(c) => halted']_vars

\* The seek to the sector fails: its offset lies behind the end of the file
SeekFails(track, sector) ==
    /\ image.id \in ImageIds
    /\ SectorOffset(track, sector) > ImageSize(image.id)

\* C15: a READ SECTOR or WRITE SECTOR whose image seek fails is refused:
\* the state stays IDLE, Busy stays clear and STATUS gets RecordNotFound or
\* the CRC error bit.
C15_Step ==
    (/\ ~Busy(status)
     /\ CmdWrite(WDCmdReadSec) \/ CmdWrite(WDCmdWriteSec)
     /\ SeekFails(disk_registers.disk_track, disk_registers.disk_sector))
    => /\ state' = DISK_IDLE
       /\ ~Busy(disk_registers'.disk_status)
       /\ \/ BitAnd(disk_registers'.disk_status, WDRNF) # 0
          \/ BitAnd(disk_registers'.disk_status, WDCRC) # 0

C15_SeekFailureRefused == [][C15_Step]_vars

(***************************************************************************)
(* Properties of the tape capture                                          *)
(***************************************************************************)
\* The step takes the byte b off the stack
Captures(b) == tape'.captured = Append(tape.captured, b)

TapeByte == 0 .. 255

\* The state the capture of b leads to, from the state st with n bytes of a
\* block of length len consumed
AfterCapture(st, b, n, len) ==
    CASE st = CAS_STREAM_IDLE ->
            IF b = 85 THEN CAS_STREAM_LEADER ELSE CAS_STREAM_IDLE
      [] st = CAS_STREAM_LEADER ->
            IF b = 85 THEN CAS_STREAM_LEADER
            ELSE IF b = 60 THEN CAS_STREAM_SYNC
            ELSE CAS_STREAM_IDLE
      [] st = CAS_STREAM_SYNC ->
            IF b = 0 THEN CAS_STREAM_HEADER
            ELSE IF b = 1 THEN CAS_STREAM_DATA
            ELSE IF b = 255 THEN CAS_STREAM_EOF
            ELSE CAS_STREAM_IDLE
      [] st \in {CAS_STREAM_HEADER, CAS_STREAM_DATA} ->
            IF n >= 1 /\ n = len + 1 THEN CAS_STREAM_LEADER ELSE st
      [] st = CAS_STREAM_EOF ->
            IF n >= 1 /\ n = len + 1 THEN CAS_STREAM_WRITE ELSE st
      [] st = CAS_STREAM_WRITE -> CAS_STREAM_IDLE

\* C16: every captured byte moves the tape state machine as the transition
\* table says: IDLE to LEADER on 0x55; LEADER stays on 0x55 and goes to SYNC
\* on 0x3C; SYNC goes to HEADER, DATA, EOF on 0x00, 0x01, 0xFF; HEADER and
\* DATA take a length byte L, L payload bytes and a checksum byte and go to
\* LEADER; EOF takes the same and goes to WRITE; the byte captured in WRITE
\* flushes the capture and goes to IDLE, and nothing else flushes.
C16_Step ==
    \A b \in TapeByte :
       Captures(b) =>
          /\ tape'.tape_state =
                AfterCapture(tape.tape_state, b, tape.in_block, tape.block_len)
          /\ IF tape.tape_state = CAS_STREAM_WRITE
             THEN Len(tape'.out) = Len(tape.out) + 1 /\ tape'.i = 0
             ELSE tape'.out = tape.out /\ tape'.i = tape.i + 1

C16_TapeTransitions == [][C16_Step]_vars

\* A header block and a data block with one payload byte went through
C16_Witness ==
    LET q == tape.captured
        n == Len(q)
    IN  /\ tape.tape_state = CAS_STREAM_LEADER
        /\ n >= 10
        /\ SubSeq(q, 1, 3) = << 85, 60, 0 >>
        /\ SubSeq(q, n - 4, n) = << 60, 1, 1, 60, 60 >>

\* The position behind the 0x55 bytes of q that start at p
RECURSIVE SkipLeader(_, _)
SkipLeader(q, p) ==
    IF p <= Len(q) /\ q[p] = 85 THEN SkipLeader(q, p + 1) ELSE p

\* The position behind the block of this type that starts at p of q with
\* its leader: 0x55 once or more, 0x3C, the type, the length L, L bytes and
\* a checksum; 0 when there is no such block at p
BlockEnd(q, p, type) ==
    LET sync == SkipLeader(q, p)
    IN  IF /\ sync > p
           /\ sync + 2 <= Len(q)
           /\ q[sync] = 60
           /\ q[sync + 1] = type
           /\ sync + 3 + q[sync + 2] <= Len(q)
        THEN sync + 3 + q[sync + 2] + 1
        ELSE 0

\* The position behind the data blocks that start at p
RECURSIVE SkipData(_, _)
SkipData(q, p) ==
    IF BlockEnd(q, p, 1) # 0 THEN SkipData(q, BlockEnd(q, p, 1)) ELSE p

\* q is a header block, data blocks and an EOF block of length 0
WellFormed(q) ==
    /\ BlockEnd(q, 1, 0) # 0
    /\ LET eof == SkipData(q, BlockEnd(q, 1, 0))
       IN  /\ BlockEnd(q, eof, 255) = Len(q) + 1
           /\ SkipLeader(q, eof) + 3 = Len(q)
           /\ q[Len(q) - 1] = 0

FromCasByteOut == trap_in'.pc \in {PC_LDA_CasLastSine, PC_STA_CasLastSine}

Captured == Len(tape'.captured) = Len(tape.captured) + 1

\* C18: the handler counts the calls made with the CPU at one of the two
\* accesses of CasByteOut; the 16th of them captures one byte, read from the
\* address in S; every other call captures nothing and leaves the state
\* machine, the buffer and the output as they are.
C18_Step ==
    tape'.calls = tape.calls + 1 =>
       /\ Captured <=> (FromCasByteOut /\ tape.count = 15)
       /\ Captured =>
             /\ Captures(trap_in'.mem[trap_in'.s])
             /\ tape'.cas_stream_buffer =
                   Append(tape.cas_stream_buffer, trap_in'.mem[trap_in'.s])
             /\ tape'.i = tape.i + 1
             /\ tape'.count = 0
       /\ ~Captured =>
             /\ tape'.count = tape.count + (IF FromCasByteOut THEN 1 ELSE 0)
             /\ tape'.captured = tape.captured
             /\ tape'.tape_state = tape.tape_state
             /\ tape'.cas_stream_buffer = tape.cas_stream_buffer
             /\ tape'.i = tape.i
             /\ tape'.out = tape.out

C18_TrapCounts == [][C18_Step]_vars

\* A byte was captured from the lower stack address, which held another
\* byte than the upper one, after calls from elsewhere
C18_Witness ==
    /\ tape.count = 0
    /\ tape.captured # << >>
    /\ Stray(tape) > 0
    /\ trap_in.s # StackTop
    /\ trap_in.mem[trap_in.s] # trap_in.mem[StackTop]
    /\ tape.data_byte = trap_in.mem[trap_in.s]

\* C18 as the claim states it: every 16th call captures
C18_AsStated ==
    [][tape'.calls = tape.calls + 1 =>
          (Captured <=> tape'.calls % 16 = 0)]_vars

\* C19: a byte captured out of order, in LEADER other than 0x55 and 0x3C, in
\* SYNC other than 0x00, 0x01 and 0xFF, brings the state machine to IDLE;
\* nothing is written, and the byte joins the bytes in the capture buffer.
C19_Step ==
    \A b \in TapeByte :
       (/\ Captures(b)
        /\ \/ tape.tape_state = CAS_STREAM_LEADER /\ b \notin {85, 60}
           \/ tape.tape_state = CAS_STREAM_SYNC /\ b \notin {0, 1, 255})
       => /\ tape'.tape_state = CAS_STREAM_IDLE
          /\ tape'.out = tape.out
          /\ tape'.cas_file = tape.cas_file
          /\ tape'.i = tape.i + 1
          /\ tape'.cas_stream_buffer = Append(tape.cas_stream_buffer, b)

C19_OutOfOrder == [][C19_Step]_vars

\* A byte out of order came after a sync byte, behind a complete block
C19_Witness ==
    LET q == tape.captured
        n == Len(q)
    IN  /\ tape.tape_state = CAS_STREAM_IDLE
        /\ tape.rejected = 1
        /\ n >= 8
        /\ tape.i = n
        /\ q[n - 1] = 60
        /\ q[n] \notin {0, 1, 255}
        /\ BlockEnd(q, 1, 0) # 0

(***************************************************************************)
(* Properties of the video mode                                            *)
(***************************************************************************)
\* The mode bits of the PIA: A/G, GM2..GM0 and ^INT, which is GM0
ModeAG == (pia_video_mode \div 16) % 2
ModeGM == (pia_video_mode \div 2) % 8
ModeINT == (pia_video_mode \div 2) % 2

GraphicsModes ==
    << GRAPHICS_1C, GRAPHICS_1R, GRAPHICS_2C, GRAPHICS_2R,
       GRAPHICS_3C, GRAPHICS_3R, GRAPHICS_6C, GRAPHICS_6R >>

\* C20: the mode vdg_render() gets from vdg_get_mode(): DMA with sam = 7;
\* with A/G = 1 and sam in 0..6 the graphics mode of GM2..GM0; with
\* A/G = 0 and ^INT = 0, ALPHA_INTERNAL for sam = 0, SEMI_GRAPHICS_8 for
\* sam = 2, SEMI_GRAPHICS_12 for sam = 4; with A/G = 0 and ^INT = 1,
\* SEMI_GRAPHICS_6 for sam = 0; UNDEFINED for every other setting, and
\* SEMI_GRAPHICS_24 for none.
C20_ModeMatrix ==
    rendered # "none" =>
       current_mode =
          IF sam_video_mode = 7 THEN DMA
          ELSE IF ModeAG = 1 THEN GraphicsModes[ModeGM + 1]
          ELSE IF ModeINT = 0 /\ sam_video_mode = 0 THEN ALPHA_INTERNAL
          ELSE IF ModeINT = 0 /\ sam_video_mode = 2 THEN SEMI_GRAPHICS_8
          ELSE IF ModeINT = 0 /\ sam_video_mode = 4 THEN SEMI_GRAPHICS_12
          ELSE IF ModeINT = 1 /\ sam_video_mode = 0 THEN SEMI_GRAPHICS_6
          ELSE UNDEFINED

\* A graphics mode was found with sam in 1..6, after another mode
C20_Witness ==
    /\ rendered = "resl_graph"
    /\ sam_video_mode = 6
    /\ current_mode = GRAPHICS_6R
    /\ pia_video_mode \in {30, 31}

\* Semigraphics 12 was found
C20_WitnessSemi ==
    /\ rendered = "semi_ext"
    /\ sam_video_mode = 4
    /\ current_mode = SEMI_GRAPHICS_12

\* C20 as the claim states it: the rows of sam = 2 and sam = 4 hold for all
\* GM bits
C20_AsStated ==
    rendered # "none" =>
       /\ (sam_video_mode = 0 /\ ModeAG = 0 /\ ModeINT = 0) =>
             current_mode = ALPHA_INTERNAL
       /\ (sam_video_mode = 0 /\ ModeAG = 0 /\ ModeINT = 1) =>
             current_mode \in {ALPHA_EXTERNAL, SEMI_GRAPHICS_6}
       /\ (sam_video_mode = 2 /\ ModeAG = 0) =>
             current_mode = SEMI_GRAPHICS_8
       /\ (sam_video_mode = 4 /\ ModeAG = 0) =>
             current_mode \in {SEMI_GRAPHICS_12, SEMI_GRAPHICS_24}
       /\ (sam_video_mode \in 1 .. 6 /\ ModeAG = 1) =>
             current_mode = GraphicsModes[ModeGM + 1]
       /\ sam_video_mode = 7 => current_mode = DMA

(***************************************************************************)
(* Properties of the register writes                                       *)
(***************************************************************************)
RestoreDone ==
    /\ disk_registers'.disk_track = 0
    /\ disk_registers'.disk_status = WDTrack0
    /\ state' = DISK_IDLE
    /\ intr' = Intrq
    /\ ~halted'

SeekDone ==
    /\ disk_registers'.disk_track = disk_registers.disk_data
    /\ disk_registers'.disk_status =
          (IF disk_registers.disk_data = 0 THEN WDTrack0 ELSE 0)
    /\ state' = DISK_IDLE
    /\ intr' = Intrq
    /\ ~halted'

\* C26: with Busy clear, the command bytes 0x00..0x03 are carried out as
\* RESTORE and 0x10..0x13 as SEEK: only the two step rate bits are masked.
\* Every other byte of 0x04..0x0F and 0x14..0x1F is no command: the
\* registers stay and the emulator halts.
C26_Step ==
    \A c \in TypeICmds :
       (CmdWrite(c) /\ ~Busy(status)) =>
          IF c \in 0 .. 3 THEN RestoreDone
          ELSE IF c \in 16 .. 19 THEN SeekDone
          ELSE /\ halted'
               /\ disk_registers' = disk_registers
               /\ intr' = "none"

C26_TypeIDecoding == [][C26_Step]_vars

\* A SEEK with both step rate bits set moved the head
C26_Witness ==
    /\ reg_in = [reg |-> "cmd", data |-> 19]
    /\ xfer.kind = "SEEK"
    /\ disk_registers.disk_track = 2
    /\ ~halted

\* A RESTORE with a step rate bit set moved the head back
C26_WitnessRestore ==
    /\ reg_in.reg = "cmd"
    /\ reg_in.data \in 1 .. 3
    /\ xfer.kind = "RESTORE"
    /\ xfer.track = 2
    /\ disk_registers.disk_track = 0

\* C26 as the claim states it: all of 0x00..0x0F is RESTORE, all of
\* 0x10..0x1F is SEEK
C26_AsStated ==
    [][\A c \in TypeICmds :
          (CmdWrite(c) /\ ~Busy(status)) =>
             IF c < 16 THEN RestoreDone ELSE SeekDone]_vars

\* C27: a write to TRACK or to SECTOR while the Busy bit is clear stores the
\* byte written, whatever the other bits of STATUS are.
C27_Step ==
    /\ (reg_in'.reg = "track" /\ ~Busy(status)) =>
          disk_registers'.disk_track = reg_in'.data
    /\ (reg_in'.reg = "sector" /\ ~Busy(status)) =>
          disk_registers'.disk_sector = reg_in'.data

C27_RegisterWrites == [][C27_Step]_vars

\* C28: a byte other than FORCE INTERRUPT written to CMD while Busy is set
\* changes nothing of the controller: state, registers, buffer and its
\* index, the timer mark and the image stay, no interrupt is raised and the
\* emulator does not halt.  A transfer in progress ends only with the last
\* byte that goes through DATA or with a FORCE INTERRUPT.
C28_Step ==
    /\ \A c \in (0 .. 255) \ {WDCmdForceInt} :
          (CmdWrite(c) /\ Busy(status)) =>
             /\ state' = state
             /\ disk_registers' = disk_registers
             /\ buffer_index' = buffer_index
             /\ buffer' = buffer
             /\ time_mark' = time_mark
             /\ nmi_inhibit' = nmi_inhibit
             /\ image' = image
             /\ disk_img_file' = disk_img_file
             /\ intr' = "none"
             /\ ~halted'
    /\ (state # DISK_IDLE /\ state' = DISK_IDLE) =>
          \/ CmdWrite(WDCmdForceInt)
          \/ xfer'.n = xfer.n + 1

C28_BusyIgnoresCommands == [][C28_Step]_vars

\* A RESTORE was written during a WRITE SECTOR and the transfer goes on
C28_Witness ==
    /\ cmd_in = WDCmdRestore
    /\ cmds = 2
    /\ state = DISK_WRITE
    /\ Busy(status)
    /\ xfer.kind = "WRITE"
    /\ buffer_index = 0

\* While a transfer is in progress Busy is set
C28_BusyWhileActive == state # DISK_IDLE => Busy(status)


(***************************************************************************)
(* Properties of the completion interrupt                                  *)
(***************************************************************************)
\* The last write to the drive control register had bit 5 (NMIE) set
NmiEnabledByCtrl == reg_in.reg = "ctrl" /\ (reg_in.data \div 32) % 2 = 1

C30_Step ==
    /\ intr' = "nmi" => (nmi_inhibit = 0 /\ NmiEnabledByCtrl)
    /\ (reg_in'.reg = "ctrl" /\ reg_in' # reg_in) => intr' = "none"

C30_WitnessRaised ==
    ticked /\ intr = "nmi" /\ reg_in = [reg |-> "ctrl", data |-> NMIE]

\* READ SECTOR, WRITE SECTOR, READ ADDRESS and WRITE TRACK
Transfers == {"READ", "WRITE", "READ_ID", "WRITE_TRK"}

\* A transfer has completed after a tick saw it in progress, the NMI enabled
Completed ==
    /\ state = DISK_IDLE /\ ~halted
    /\ xfer.kind \in Transfers /\ xfer.ended # -1
    /\ time_mark # 0 /\ nmi_inhibit = 0

\* The tick has raised the NMI and stopped the delay
CompletionNmi == ticked /\ intr = "nmi" /\ time_mark = 0

\* A command has been written since n commands, or the NMI was inhibited
Interfered(n) == cmds # n \/ nmi_inhibit # 0 \/ halted

C29_Step ==
    /\ (ticked' /\ intr' = "nmi") =>
          /\ state = DISK_IDLE /\ nmi_inhibit = 0
          /\ time_mark # 0 /\ time_mark' = 0
    /\ (time_mark = 0 /\ time_mark' # 0) => (ticked' /\ state # DISK_IDLE)

\* C29: once a transfer that a tick has seen in progress has completed, as
\* long as nmi_inhibit stays 0 and no further command is written, the ticks
\* of the advancing timer eventually raise the completion NMI; a tick raises
\* it only with a running delay, which it stops, and the delay starts again
\* only when a tick sees another transfer in progress
C29_CompletionNmi ==
    /\ \A n \in 0 .. MaxCmds :
          (Completed /\ cmds = n) ~> (CompletionNmi \/ Interfered(n))
    /\ [][C29_Step]_vars

\* The delay is running after a completed transfer
C29_Witness == Completed /\ ticked /\ now = 2 * DISK_INT_INTERVAL

\* The completion NMI has been raised
C29_WitnessRaised == CompletionNmi /\ xfer.kind = "READ_ID" /\ cmds = 1

(***************************************************************************)
(* Properties of the file layer                                            *)
(***************************************************************************)
\* The position of an open file is at its end
AtEof(f) == f.file_is_open /\ f.current_position = f.file_size

\* eof_flag is set exactly when the position of the open file is at its end
EofFlagFollowsPosition == file.file_is_open => (file.eof_flag <=> AtEof(file))

C25_Step ==
    (fret'.op = "fread" /\ AtEof(file)) => (fret'.ret = 0 /\ file' = file)

\* C25: fat32_fread on an open file whose position is already at the end of
\* the file returns 0 and leaves the file structure unchanged
C25_ReadAtEof == [][C25_Step]_vars

C25_ReturnsFatEof ==
    (fret'.op = "fread" /\ AtEof(file)) => (fret'.ret = FAT_EOF /\ file' = file)

\* What the code does: it returns FAT_EOF, the file structure unchanged
C25_ReadAtEofFails == [][C25_ReturnsFatEof]_vars

\* A read has found the file at its end
C25_Witness ==
    /\ fret = [op |-> "fread", ret |-> FAT_EOF]
    /\ AtEof(file) /\ file.file_size = 3

(***************************************************************************)
(* Properties of the emulation loop                                        *)
(***************************************************************************)
\* The step is the poll of the reset button
ResetPolled == loop.pc = "reset" /\ loop'.pc = "disk"

\* The timer has wrapped since the loop was entered
TimerWrapped == Less32(rpi_system_timer(loop, loop.elapsed), loop.t0)

C23_Step ==
    ResetPolled =>
       /\ loop'.held < 0 =>
             loop'.ev = << "cpu_reset(0)" >> /\ loop'.mem71 = loop.mem71
       /\ (loop'.held >= 0 /\ loop'.held < LONG_RESET_DELAY) =>
             loop'.ev = << "cpu_reset(1)" >> /\ loop'.mem71 = loop.mem71
       /\ loop'.held >= LONG_RESET_DELAY =>
             /\ loop'.ev = << "mem_write(0x71, 0)", "cpu_reset(1)" >>
             /\ loop'.mem71 = 0

\* C23: a press of the reset button released before 1,500,000 microseconds
\* resets the CPU and leaves byte 0x0071 untouched (a warm start); a press
\* held 1,500,000 microseconds or more writes 0 to 0x0071 and then resets the
\* CPU (a cold start); the length is measured by an unsigned subtraction, so
\* also when the timer wraps during the press
C23_ResetButton == [][C23_Step]_vars

\* A long press during which the timer wrapped has cleared the flag the ROM
\* had stored
C23_Witness ==
    /\ loop.pc = "disk" /\ loop.held = LONG_RESET_DELAY
    /\ loop.ev = << "mem_write(0x71, 0)", "cpu_reset(1)" >>
    /\ loop.mem71 = 0
    /\ TimerWrapped
    /\ ~Less32(rpi_system_timer(loop, loop.elapsed - loop.held), loop.t0)

\* A short press has left the flag
C23_WitnessShort ==
    /\ loop.pc = "disk" /\ loop.held = LONG_RESET_DELAY - 1
    /\ loop.ev = << "cpu_reset(1)" >>
    /\ loop.mem71 = ColdStartFlag


C24_Step ==
    /\ \A i \in 1 .. 2 :
          (loop' # loop /\ i <= Len(loop'.ev) /\ loop'.ev[i] = "pia_vsync_irq")
          => /\ loop.pc = "refresh"
             /\ loop'.ev = << "vdg_render", "pia_vsync_irq" >>
             /\ loop.elapsed - loop.refreshed_at >= VDG_REFRESH_INTERVAL
             /\ loop'.refreshed_at = loop.elapsed
    /\ loop'.refreshed_at # loop.refreshed_at =>
          /\ loop'.refreshed_at - loop.refreshed_at >= VDG_REFRESH_INTERVAL
          /\ loop'.ev = << "vdg_render", "pia_vsync_irq" >>

\* C24: the vsync IRQ is raised only right after a vdg_render() of the same
\* iteration, no CPU instruction between, and only when 20,000 microseconds
\* or more have passed since the previous refresh; the times of two
\* consecutive refreshes (last_refresh_time) are 20 ms or more apart
C24_VsyncAfterRender == [][C24_Step]_vars

\* The second vsync IRQ, after the timer wrapped
C24_Witness ==
    /\ loop.pc = "cpu_run" /\ loop.ev = << "vdg_render", "pia_vsync_irq" >>
    /\ loop.vsync_before >= 0
    /\ TimerWrapped

\* As stated, with the IRQs themselves 20 ms apart: false when the second
\* vdg_render() is faster than the first
C24_AsStated ==
    (loop.pc # "off" /\ loop.vsync_before >= 0)
    => loop.vsync_at - loop.vsync_before >= VDG_REFRESH_INTERVAL

(***************************************************************************)
(* Properties of the renderers                                             *)
(***************************************************************************)
FrameBytes == SCREEN_WIDTH_PIX * SCREEN_HEIGHT_PIX

\* A call of vdg_render() has returned
Rendered == fb.pc = "done"

\* C21: for every mode vdg_render() has a renderer for, and for the video
\* memories and colour sets tried, one call stores exactly 256 * 192 = 49152
\* bytes in the frame buffer: the stores go to the offsets 0, 1, 2, ... in
\* this order, never past offset 49151 and never past the end of pixel_row,
\* and the call returns after the store to offset 49151
C21_FrameWritten ==
    fb.pc # "off" =>
       /\ fb.ptr <= FrameBytes
       /\ ~fb.overrun
       /\ Rendered => fb.ptr = FrameBytes

\* vdg_render_color_graph() has returned from GRAPHICS_1C
C21_Witness ==
    Rendered /\ fb.mode = GRAPHICS_1C /\ fb.ptr = FrameBytes /\ fb.calls = 1

\* vdg_render_semi_ext() has returned from SEMI_GRAPHICS_24
C21_WitnessSemi ==
    Rendered /\ fb.mode = SEMI_GRAPHICS_24 /\ fb.ptr = FrameBytes

\* The inputs of the renderers stay as they are
C22_Step ==
    (fb.pc # "off" /\ fb'.pc # "off") =>
       /\ fb'.mode = fb.mode /\ fb'.pia = fb.pia
       /\ fb'.base = fb.base /\ fb'.pat = fb.pat

C31_LastIndex(s) ==
    CASE s \in {DISK_READ, DISK_WRITE} -> SECTOR_SIZE - 1
      [] s = DISK_READ_ID -> ID_FIELD_SIZE - 1
      [] s = DISK_WRITE_TRK -> INIT_BYTE_SKIP + SIZEOF_disk_init_sector_id
      [] OTHER -> BYTES_PER_TRACK

C31_InTransfer ==
    state \in {DISK_READ, DISK_WRITE, DISK_READ_ID, DISK_WRITE_TRK}

\* a transfer state is entered with buffer_index = 0, and a step of a
\* transfer that moves buffer_index used the old index, inside the buffer
C31_Step ==
    /\ (~C31_InTransfer /\ C31_InTransfer') => buffer_index' = 0
    /\ (C31_InTransfer /\ buffer_index' # buffer_index)
           => /\ buffer_index \in 0 .. BYTES_PER_TRACK - 1
              /\ buffer_index' = buffer_index + 1

C31_WitnessSector == state = DISK_READ /\ buffer_index = SECTOR_SIZE - 1


\* ---------------------------------------------------------------------
\* Properties of the mode decoder
\* ---------------------------------------------------------------------

\* C32: vdg_get_mode() returns SEMI_GRAPHICS_24 for no setting of
\* sam_video_mode and pia_video_mode: the branch of SEMI_GRAPHICS_24
\* repeats the condition of SEMI_GRAPHICS_12 and is never taken, neither
\* for the mode of the settings at hand nor for the mode a refresh found.
C32_NoSemiGraphics24 ==
    /\ vdg_get_mode # SEMI_GRAPHICS_24
    /\ rendered # "none" => current_mode # SEMI_GRAPHICS_24

\* The condition written for SEMI_GRAPHICS_24 held at a refresh
C32_Witness ==
    /\ rendered = "semi_ext"
    /\ sam_video_mode = 4
    /\ BitAnd(pia_video_mode, 2 + 16) = 0
    /\ current_mode = SEMI_GRAPHICS_12
    /\ vdg_get_mode = SEMI_GRAPHICS_12

\* The settings in which vdg_get_mode() resolves no mode
C33_Unresolved ==
    /\ sam_video_mode \in 1 .. 6
    /\ ModeAG = 0
    /\ ~(sam_video_mode \in {2, 4} /\ ModeINT = 0)

\* C33: with sam_video_mode in 0..6 vdg_get_mode() returns a mode that
\* vdg_render() draws when A/G = 1, when sam_video_mode = 0, and when
\* sam_video_mode is 2 or 4 with ^INT = 0; in the other settings of sam
\* 1..6 it returns UNDEFINED. vdg_render() halts for sam_video_mode = 7
\* (DMA) and for the settings that resolve no mode, and for no other.
C33_RenderHalts ==
    rendered # "none" =>
       /\ (current_mode = UNDEFINED) = C33_Unresolved
       /\ (current_mode = DMA) = (sam_video_mode = 7)
       /\ (rendered = "halt") = (sam_video_mode = 7 \/ C33_Unresolved)

\* A refresh in a text setting of sam_video_mode = 1 halted
C33_Witness ==
    /\ rendered = "halt"
    /\ sam_video_mode = 1
    /\ ModeAG = 0
    /\ current_mode = UNDEFINED

\* C33 as the claim states it: a mode is resolved for every sam in 0..6
C33_AsStated ==
    (rendered # "none" /\ sam_video_mode \in 0 .. 6) =>
       /\ current_mode # UNDEFINED
       /\ rendered # "halt"

\* ---------------------------------------------------------------------
\* Properties of the semigraphics 6 renderer
\* ---------------------------------------------------------------------

\* The cell of a video byte as the mode decoder's note has it: bit 7 = 0
\* selects the text character, bit 7 = 1 the semigraphics 6 tile
C34_CellByBit7(c, font_row, pia) ==
    IF c < CHAR_SEMI_GRAPHICS
    THEN AlphaCell(c, font_row, pia)
    ELSE Semi6Cell(c, font_row, pia)

\* The scan line vdg_render_semi6() is about to store
C34_NextLine ==
    CharLine(fb, fb.row * SCREEN_WIDTH_CHAR + fb.base, fb.font_row)

\* The video bytes of that line
C34_NextBytes ==
    [col \in 0 .. SCREEN_WIDTH_CHAR - 1 |->
        mem_read(fb, col + fb.row * SCREEN_WIDTH_CHAR + fb.base)]

\* C34: in the mode of sam = 0, A/G = 0, ^INT = 1 (SEMI_GRAPHICS_6) a
\* video byte with bit 7 clear is drawn as the text character of the font
\* table and a byte with bit 7 set as the semigraphics 6 tile of its low
\* 6 bits, in the colour of its 2 high bits plus 4 * CSS.
C34_TextOrTile ==
    fb.pc = "semi6" =>
       \A x \in 0 .. SCREEN_WIDTH_CHAR * FONT_WIDTH - 1 :
          C34_NextLine[x] =
             CellPixel(C34_CellByBit7(C34_NextBytes[x \div FONT_WIDTH],
                                      fb.font_row, fb.pia),
                       x % FONT_WIDTH)

\* What holds of the tiles: a byte with bit 7 set is drawn as the tile of
\* its low 6 bits in the colour of its 2 high bits plus 4 * CSS
C34_TileOfSetBit7 ==
    fb.pc = "semi6" =>
       \A x \in 0 .. SCREEN_WIDTH_CHAR * FONT_WIDTH - 1 :
          LET c == C34_NextBytes[x \div FONT_WIDTH]
          IN  c >= CHAR_SEMI_GRAPHICS =>
                 C34_NextLine[x] =
                    IF BitOf(semi_graph_6(c % 64, fb.font_row),
                             7 - (x % FONT_WIDTH)) = 1
                    THEN colors((c \div 64) + 4 * BitOf(fb.pia, 0))
                    ELSE FB_BLACK

\* A line with bytes of both kinds is about to be drawn
C34_Witness ==
    /\ fb.pc = "semi6"
    /\ \E col \in 0 .. SCREEN_WIDTH_CHAR - 1 :
          C34_NextBytes[col] < CHAR_SEMI_GRAPHICS
    /\ \E col \in 0 .. SCREEN_WIDTH_CHAR - 1 :
          C34_NextBytes[col] >= CHAR_SEMI_GRAPHICS

\* ---------------------------------------------------------------------
\* Properties of the capture buffer
\* ---------------------------------------------------------------------

\* A leader and nothing else was captured
C35_LeaderOnly ==
    /\ tape.captured # << >>
    /\ \A j \in 1 .. Len(tape.captured) : tape.captured[j] = 85

\* After a leader and nothing else the statics are those of LongLeader
C35_LeaderStatics ==
    C35_LeaderOnly =>
       \E n \in CasFileSizes : tape = LongLeader(n, Len(tape.captured))

\* One byte was captured: it was stored at the index i; in the state WRITE
\* the buffer was then written out, the index set to 0 and the buffer
\* zeroed; in the other states the index moved on by one, or stayed at
\* the last cell
C35_Step ==
    Len(tape'.captured) = Len(tape.captured) + 1 =>
       LET data_byte == tape'.captured[Len(tape'.captured)]
           stored == StoreByte(tape.cas_stream_buffer, tape.i, data_byte)
       IN  /\ tape.i \in 0 .. CAS_STREAM_SIZE - 1
           /\ Len(stored) <= CAS_STREAM_SIZE
           /\ stored[tape.i + 1] = data_byte
           /\ IF tape.tape_state = CAS_STREAM_WRITE
              THEN /\ tape'.i = 0
                   /\ tape'.cas_stream_buffer = << >>
              ELSE /\ tape'.cas_stream_buffer = stored
                   /\ tape'.i = IF tape.i = CAS_STREAM_SIZE - 1
                                THEN CAS_STREAM_SIZE - 1
                                ELSE tape.i + 1

\* C35: the capture index stays within 0..65535 and every store into the
\* 64 KiB capture buffer is in bounds: with the buffer full the index
\* stays at 65535 and later bytes overwrite the last cell; the flush of
\* the state WRITE sets the index to 0 and zeroes the buffer.
C35_CaptureInBounds ==
    /\ [](/\ tape.i \in 0 .. CAS_STREAM_SIZE - 1
          /\ Len(tape.cas_stream_buffer) <= CAS_STREAM_SIZE)
    /\ [][C35_Step]_vars

\* A byte has overwritten the last cell of the full buffer
C35_Witness ==
    /\ Len(tape.captured) > CAS_STREAM_SIZE
    /\ tape.i = CAS_STREAM_SIZE - 1
    /\ Len(tape.cas_stream_buffer) = CAS_STREAM_SIZE
    /\ tape.cas_stream_buffer[CAS_STREAM_SIZE] = tape.data_byte
    /\ tape.captured[CAS_STREAM_SIZE] # tape.data_byte

\* The full buffer was flushed
C35_WitnessFlush ==
    /\ Len(tape.captured) > CAS_STREAM_SIZE
    /\ tape.i = 0
    /\ tape.cas_stream_buffer = << >>
    /\ tape.out # << >>

(***************************************************************************)
(* The loader (loader.c): the file browser that loader() draws on the text *)
(* screen of the emulated machine.  mem.c is not among the sources: the    *)
(* text screen and the EXEC vector are RAM, which mem_read() reads and     *)
(* mem_write() writes; the calls of mem_load() and mem_define_rom() are    *)
(* kept as they were made.                                                 *)
(***************************************************************************)
FAT32_MAX_DIR_LIST == 256
SCAN_CODE_Q == 16
SCAN_CODE_ENTR == 28
SCAN_CODE_UP == 72
SCAN_CODE_DOWN == 80
TERMINAL_STATUS_ROW == 15
TERMINAL_LIST_LENGTH == TERMINAL_STATUS_ROW - 1
TERMINAL_LINE_LENGTH == 31
ROM_SIZE == 16 * 1024
CARTRIDGE_ROM_BASE == 49152
SD_READ_FAIL == -12
FILE_ROM == 1
FILE_CAS == 2
FILE_OTHER == 5

\* The text screen at 0x400: 16 rows of 32 cells
TextCells == 512
TextColumns == 32
Blank == 32

\* "PRESS <Q> TO EXIT."
MSG_EXIT ==
    << 80, 82, 69, 83, 83, 32, 60, 81, 62, 32, 84, 79, 32, 69, 88, 73, 84,
       46, 32, 32, 32, 32, 32, 32, 32, 32, 32, 32, 32, 32, 32, 32 >>

\* "PRESS: <UP> <DOWN> <ENTER> <Q>"
MSG_STATUS ==
    << 80, 82, 69, 83, 83, 58, 32, 60, 85, 80, 62, 32, 60, 68, 79, 87, 78,
       62, 32, 60, 69, 78, 84, 69, 82, 62, 32, 60, 81, 62, 32, 32 >>

\* "FAT32 INITIALIZATION FAILED,    FIX SD OR FORMATING."
MSG_FAT32_ERROR ==
    << 70, 65, 84, 51, 50, 32, 73, 78, 73, 84, 73, 65, 76, 73, 90, 65, 84,
       73, 79, 78, 32, 70, 65, 73, 76, 69, 68, 44, 32, 32, 32, 32, 70, 73,
       88, 32, 83, 68, 32, 79, 82, 32, 70, 79, 82, 77, 65, 84, 73, 78, 71,
       46, 32, 32, 32, 32, 32, 32, 32, 32, 32, 32, 32, 32 >>

\* "DIRECTORY LOADING ERROR."
MSG_DIR_READ_ERROR ==
    << 68, 73, 82, 69, 67, 84, 79, 82, 89, 32, 76, 79, 65, 68, 73, 78, 71,
       32, 69, 82, 82, 79, 82, 46, 32, 32, 32, 32, 32, 32, 32, 32 >>

\* "ROM IMAGE READ ERROR."
MSG_ROM_READ_ERROR ==
    << 82, 79, 77, 32, 73, 77, 65, 71, 69, 32, 82, 69, 65, 68, 32, 69, 82,
       82, 79, 82, 46, 32, 32, 32, 32, 32, 32, 32, 32, 32, 32, 32 >>

\* "ROM IMAGE LOAD COMPLETED."
MSG_ROM_READ_DONE ==
    << 82, 79, 77, 32, 73, 77, 65, 71, 69, 32, 76, 79, 65, 68, 32, 67, 79,
       77, 80, 76, 69, 84, 69, 68, 46, 32, 32, 32, 32, 32, 32, 32 >>

\* "CAS FILE MOUNTED."
MSG_CAS_FILE_MOUNTED ==
    << 67, 65, 83, 32, 70, 73, 76, 69, 32, 77, 79, 85, 78, 84, 69, 68, 46,
       32, 32, 32, 32, 32, 32, 32, 32, 32, 32, 32, 32, 32, 32, 32 >>

\* "DISK IMAGE MOUNTED."
MSG_DISK_IMG_MOUNTED ==
    << 68, 73, 83, 75, 32, 73, 77, 65, 71, 69, 32, 77, 79, 85, 78, 84, 69,
       68, 46, 32, 32, 32, 32, 32, 32, 32, 32, 32, 32, 32, 32, 32 >>

\* toupper((int)(*text)) & 0xbf
toupper(c) == IF c \in 97 .. 122 THEN c - 32 ELSE c

\* text_write(): the cells from row * 32 + col on, up to the end of the
\* screen
text_write(l, row, col, text) ==
    LET count == row * TextColumns + col
    IN  [l EXCEPT !.screen =
            [i \in 0 .. TextCells - 1 |->
                IF i >= count /\ i < count + Len(text)
                THEN BitAnd(toupper(text[i - count + 1]), 191)
                ELSE @[i]]]

\* The cells 1..31 of a row with the byte op(c) for each byte c
RowCells(l, row, set) ==
    [l EXCEPT !.screen =
        [i \in 0 .. TextCells - 1 |->
            IF i \div TextColumns = row /\ i % TextColumns >= 1
            THEN IF set THEN BitOr(@[i], 64) ELSE BitAnd(@[i], 191)
            ELSE @[i]]]

\* text_highlight(), with its static highlighted_row
RECURSIVE text_highlight(_, _, _)
text_highlight(l, on_off, row) ==
    IF on_off = 0 /\ l.highlighted_row # -1
    THEN [RowCells(l, l.highlighted_row, FALSE) EXCEPT !.highlighted_row = -1]
    ELSE IF on_off = 1
    THEN IF row < 0 \/ row > 14 THEN l
         ELSE IF l.highlighted_row = row THEN l
         ELSE IF l.highlighted_row = -1
         THEN [RowCells(l, row, TRUE) EXCEPT !.highlighted_row = row]
         ELSE text_highlight(text_highlight(l, 0, 0), 1, row)
    ELSE l

\* text_clear()
RECURSIVE BlankRows(_, _)
BlankRows(l, i) ==
    IF i = TERMINAL_STATUS_ROW THEN l
    ELSE BlankRows(text_write(l, i, 0, [j \in 1 .. TextColumns |-> Blank]),
                   i + 1)

text_clear(l) == BlankRows(text_highlight(l, 0, 0), 0)

\* util_save_text_screen() and util_restore_text_screen()
util_save_text_screen(l) ==
    [l EXCEPT !.text_screen_save = l.screen,
              !.screen = [i \in 0 .. TextCells - 1 |-> Blank]]

\* Variant: the last cell is not written back
util_restore_but_last(l) ==
    [l EXCEPT !.screen =
        [i \in 0 .. TextCells - 1 |->
            IF i < TextCells - 1 THEN l.text_screen_save[i] ELSE @[i]]]

util_restore_text_screen(l) ==
    [l EXCEPT !.screen = l.text_screen_save]

\* Is sub a part of the string s: strstr(s, sub) != NULL
strstr(s, sub) ==
    \E k \in 0 .. Len(s) - Len(sub) :
       \A j \in 1 .. Len(sub) : s[k + j] = sub[j]

file_get_type(lfn) ==
    IF strstr(lfn, << 46, 82, 79, 77 >>) \/ strstr(lfn, << 46, 114, 111, 109 >>) THEN FILE_ROM
    ELSE IF strstr(lfn, << 46, 67, 65, 83 >>) \/ strstr(lfn, << 46, 99, 97, 115 >>) THEN FILE_CAS
    ELSE IF strstr(lfn, << 46, 86, 68, 75 >>) \/ strstr(lfn, << 46, 118, 100, 107 >>) THEN FILE_VDK
    ELSE FILE_OTHER

\* The card: a root directory at cluster 2 with vol.root entries, of which
\* every sixth is the directory at cluster 3, the others a ROM image, a
\* CAS file, a disk image, another file and a ROM image of no bytes; the
\* directory at cluster 3 holds ".", ".." and a CAS file.  On a faulty
\* card no sector is read.
RootCluster == 2
SubCluster == 3
SubLength == 3
RomBytes == 8192
CasBytes == 64

Letter(k) == 65 + (k % 26)

RootEntry(k) ==
    CASE k % 6 = 0 ->
            [is_directory |-> TRUE, lfn |-> << Letter(k) >> \o << 68, 73, 82 >>,
             cluster_chain_head |-> SubCluster, file_size |-> 0]
      [] k % 6 = 1 ->
            [is_directory |-> FALSE, lfn |-> << Letter(k) >> \o << 46, 82, 79, 77 >>,
             cluster_chain_head |-> 10 + k, file_size |-> RomBytes]
      [] k % 6 = 2 ->
            [is_directory |-> FALSE, lfn |-> << Letter(k) >> \o << 46, 99, 97, 115 >>,
             cluster_chain_head |-> 10 + k, file_size |-> CasBytes]
      [] k % 6 = 3 ->
            [is_directory |-> FALSE, lfn |-> << Letter(k) >> \o << 46, 86, 68, 75 >>,
             cluster_chain_head |-> 10 + k, file_size |-> ImageSize(1)]
      [] k % 6 = 4 ->
            [is_directory |-> FALSE, lfn |-> << Letter(k) >> \o << 46, 84, 88, 84 >>,
             cluster_chain_head |-> 10 + k, file_size |-> 5]
      [] k % 6 = 5 ->
            [is_directory |-> FALSE, lfn |-> << Letter(k) >> \o << 46, 114, 111, 109 >>,
             cluster_chain_head |-> 10 + k, file_size |-> 0]

SubEntry(k) ==
    CASE k = 0 ->
            [is_directory |-> TRUE, lfn |-> << 46 >>,
             cluster_chain_head |-> SubCluster, file_size |-> 0]
      [] k = 1 ->
            [is_directory |-> TRUE, lfn |-> << 46, 46 >>,
             cluster_chain_head |-> RootCluster, file_size |-> 0]
      [] OTHER ->
            [is_directory |-> FALSE, lfn |-> << 84, 65, 80, 69, 46, 67, 65, 83 >>,
             cluster_chain_head |-> 9, file_size |-> CasBytes]

\* What directory_list[] holds where fat32_parse_dir() filled nothing in:
\* the bytes the stack held
Unread ==
    [is_directory |-> FALSE, lfn |-> << >>, cluster_chain_head |-> 0,
     file_size |-> 0]

GarbageEntries ==
    { Unread,
      [is_directory |-> TRUE, lfn |-> << 63 >>, cluster_chain_head |-> 7,
       file_size |-> 0] }

\* fat32_parse_dir(start_cluster, directory_list, FAT32_MAX_DIR_LIST): the
\* count of the entries, or the error code of the sector read
fat32_parse_dir(vol, start_cluster) ==
    IF vol.faulty THEN SD_READ_FAIL
    ELSE IF start_cluster = RootCluster THEN vol.root
    ELSE IF start_cluster = SubCluster THEN SubLength
    ELSE SD_READ_FAIL

\* directory_list[idx] after the listing of cluster l.dir; g where nothing
\* was filled in
EntryAt(l, idx, g) ==
    IF idx >= 0 /\ idx < l.list_length
    THEN IF l.dir = RootCluster THEN RootEntry(idx) ELSE SubEntry(idx)
    ELSE g

\* text_dir_output()
RECURSIVE DirRows(_, _, _)
DirRows(l, row, g) ==
    IF row > TERMINAL_LIST_LENGTH THEN l
    ELSE IF row + l.list_start < l.list_length
    THEN LET e == EntryAt(l, row + l.list_start, g)
             starred == IF e.is_directory
                        THEN text_write(l, row, 0, << 42 >>)
                        ELSE l
             text_line == SubSeq(e.lfn, 1,
                                 Min(Len(e.lfn), TERMINAL_LINE_LENGTH))
         IN  DirRows(text_write(starred, row, 1, text_line), row + 1, g)
    ELSE DirRows(l, row + 1, g)

text_dir_output(l, g) == DirRows(l, 0, g)

\* The two messages before util_wait_quit()
Notice(l, msg, path) ==
    [text_write(text_write(l, 0, 0, msg), TERMINAL_STATUS_ROW, 0, MSG_EXIT)
        EXCEPT !.pc = "wait", !.path = path]

\* loader() returns: util_restore_text_screen()
LoaderReturn(l) ==
    [util_restore_text_screen(l) EXCEPT !.pc = "idle", !.last = "returned"]

\* The start of loader(), up to the main loop
LoaderEntry(l) ==
    LET saved == [util_save_text_screen(l) EXCEPT
                     !.entry = l.screen, !.exec_entry = l.exec,
                     !.rom_bytes = 0, !.junk = 0, !.mem = << >>,
                     !.calls = @ + 1, !.last = "called"]
        n == fat32_parse_dir(l.vol, RootCluster)
    IN  IF ~l.fat32_initialized
        THEN Notice(saved, MSG_FAT32_ERROR, "fat32")
        ELSE IF n = -1
        THEN Notice(saved, MSG_DIR_READ_ERROR, "dir")
        ELSE LET listed == [saved EXCEPT
                               !.list_length = n, !.dir = RootCluster,
                               !.list_start = 0, !.prev_list_start = -1,
                               !.highlighted_line = 0, !.pc = "browse",
                               !.path = "browse"]
             IN  text_write(text_dir_output(listed, Unread),
                            TERMINAL_STATUS_ROW, 0, MSG_STATUS)

\* The end of an iteration of the main loop
LoopEnd(l, g) ==
    LET drawn == IF l.list_start # l.prev_list_start
                 THEN [text_dir_output(text_clear(l), g) EXCEPT
                          !.prev_list_start = l.list_start]
                 ELSE l
    IN  text_highlight(drawn, 1, drawn.highlighted_line)

KeyUp(l) ==
    IF l.highlighted_line - 1 < 0
    THEN [l EXCEPT !.highlighted_line = 0,
                   !.list_start = IF @ > 0 THEN @ - 1 ELSE @]
    ELSE [l EXCEPT !.highlighted_line = @ - 1]

KeyDown(l) ==
    LET line == l.highlighted_line + 1
    IN  IF line = l.list_length
        THEN l
        ELSE IF line > TERMINAL_LIST_LENGTH
        THEN [l EXCEPT
                 !.highlighted_line = TERMINAL_LIST_LENGTH,
                 !.list_start =
                    IF l.list_length - (@ + 1) < TERMINAL_LIST_LENGTH + 1
                    THEN l.list_length - (TERMINAL_LIST_LENGTH + 1)
                    ELSE @ + 1]
        ELSE [l EXCEPT !.highlighted_line = line]

\* ENTER on a directory
EnterDirectory(l, e, g) ==
    LET n == fat32_parse_dir(l.vol, e.cluster_chain_head)
        cleared == text_clear(l)
    IN  IF n = -1
        THEN Notice(cleared, MSG_DIR_READ_ERROR, "dir")
        ELSE LoopEnd(text_dir_output(
                        [cleared EXCEPT
                            !.list_length = n, !.dir = e.cluster_chain_head,
                            !.list_start = 0, !.prev_list_start = 0,
                            !.highlighted_line = 0], g), g)

\* What fat32_fread(&file, data_buffer, ROM_SIZE) returns after
\* fat32_fopen(&entry, &file) on the local file, which nothing initialised:
\* junk = 0 when file_is_open held 0, and else what the read of a structure
\* of stack bytes returns
RomRead(l, e, junk) ==
    IF junk # 0 THEN junk
    ELSE IF l.vol.faulty THEN SD_READ_FAIL
    ELSE fat32_fread_return(OpenEntry(e.file_size), ROM_SIZE)

JunkReads == {0, FAT_EOF, 1}

\* ENTER on a ROM image
EnterRom(l, e, junk) ==
    LET rom_bytes == RomRead(l, e, junk)
        cleared == [text_clear(l) EXCEPT !.rom_bytes = rom_bytes,
                                         !.junk = junk]
    IN  IF rom_bytes = -1
        THEN Notice(cleared, MSG_ROM_READ_ERROR, "rom")
        ELSE Notice([cleared EXCEPT
                        !.mem = << [call |-> "mem_load",
                                    a |-> CARTRIDGE_ROM_BASE, b |-> rom_bytes],
                                   [call |-> "mem_define_rom",
                                    a |-> CARTRIDGE_ROM_BASE,
                                    b |-> rom_bytes - 1] >>,
                        !.exec = << 192, 0 >>],
                    MSG_ROM_READ_DONE, "rom")

\* One iteration of the main loop of loader() with the key read, but for
\* the files it mounts
LoaderLoop(l, key, g, junk) ==
    LET e == EntryAt(l, l.list_start + l.highlighted_line, g)
        file_type == file_get_type(e.lfn)
    IN  IF key = SCAN_CODE_Q THEN LoaderReturn([l EXCEPT !.path = "quit"])
        ELSE IF key = SCAN_CODE_UP THEN LoopEnd(KeyUp(l), g)
        ELSE IF key = SCAN_CODE_DOWN THEN LoopEnd(KeyDown(l), g)
        ELSE IF key # SCAN_CODE_ENTR THEN LoopEnd(l, g)
        ELSE IF e.is_directory THEN EnterDirectory(l, e, g)
        ELSE IF file_type = FILE_ROM THEN EnterRom(l, e, junk)
        ELSE IF file_type = FILE_CAS
        THEN Notice(text_clear(l), MSG_CAS_FILE_MOUNTED, "cas")
        ELSE IF file_type = FILE_VDK
        THEN Notice(text_clear(l), MSG_DISK_IMG_MOUNTED, "vdk")
        ELSE LoopEnd(l, g)

\* The variables of the disk controller the loader leaves alone
disk_at_rest ==
    << state, disk_registers, nmi_inhibit, buffer, buffer_index, vdk_header,
       time_mark, halted, intr, xfer, written, last_wr, idle_data,
       img_writes, cmds, cmd_in, now, ticked >>

not_loader_vars ==
    << disk_at_rest, trap_in, probe_vars, file_vars, loop_vars, frame_vars,
       cache_vars >>

\* The files loader() mounts with the key read: cas_file and disk_img_file
Mounts(key, g) ==
    LET e == EntryAt(ld, ld.list_start + ld.highlighted_line, g)
        file_type == IF key = SCAN_CODE_ENTR /\ ~e.is_directory
                     THEN file_get_type(e.lfn)
                     ELSE FILE_OTHER
    IN  /\ tape' = IF file_type = FILE_CAS
                   THEN [tape EXCEPT !.cas_file = OpenEntry(e.file_size)]
                   ELSE tape
        /\ IF file_type = FILE_VDK
           THEN /\ disk_img_file' = fat32_fopen(1)
                /\ disk_img_file_type' = file_type
                /\ image' = [id |-> 1, over |-> EmptyMap]
           ELSE UNCHANGED << disk_img_file, disk_img_file_type, image >>

\* The screen the program has drawn before the loader is called
ScreenPatterns == {1, 2}
CpuScreen(pat) ==
    [i \in 0 .. TextCells - 1 |-> (i * (2 * pat + 1) + 96 * pat) % 256]

\* The EXEC vector the ROM has set
ExecAtBoot == << 139, 141 >>

\* The program draws its screen
CpuDraws(pat) ==
    /\ ld.pc = "idle"
    /\ ld.screen # CpuScreen(pat)
    /\ ld' = [ld EXCEPT !.screen = CpuScreen(pat), !.last = "drawn"]
    /\ UNCHANGED << core_vars, file_vars, loop_vars, frame_vars, cache_vars >>

\* loader() is called and runs up to its first rpi_keyboard_read()
LoaderCall ==
    /\ ld.pc = "idle"
    /\ ld.calls < MaxLoaderCalls
    /\ ld' = LoaderEntry(ld)
    /\ UNCHANGED << core_vars, file_vars, loop_vars, frame_vars, cache_vars >>

\* vdg_render(), the key, and the rest of the iteration of the main loop
LoaderKey(key, g, junk) ==
    /\ ld.pc = "browse"
    /\ rendered # "halt"
    /\ g = Unread \/ ld.list_length <= 0
    /\ junk = 0 \/ key = SCAN_CODE_ENTR
    /\ vdg_render
    /\ ld' = LoaderLoop(ld, key, g, junk)
    /\ Mounts(key, g)
    /\ UNCHANGED not_loader_vars

\* util_wait_quit(): vdg_render() and the key, and the return after Q
LoaderWait(key) ==
    /\ ld.pc = "wait"
    /\ rendered # "halt"
    /\ vdg_render
    /\ ld' = IF key = SCAN_CODE_Q THEN LoaderReturn(ld) ELSE ld
    /\ UNCHANGED << disk_vars, tape_vars, probe_vars, file_vars, loop_vars,
                    frame_vars, cache_vars >>

Keys == {0, SCAN_CODE_Q, SCAN_CODE_UP, SCAN_CODE_DOWN, SCAN_CODE_ENTR}

RootLengths == {0, 1, 6, 16}

Volumes ==
    [root : RootLengths, faulty : {FALSE}] \cup [root : {6}, faulty : {TRUE}]

InitLoader ==
    /\ CoreIdle /\ FileIdle /\ LoopIdle /\ FrameIdle /\ CacheIdle
    /\ \E vol \in Volumes, init \in BOOLEAN :
          /\ init \/ (vol.root = 6 /\ ~vol.faulty)
          /\ ld = [pc |-> "idle", last |-> "drawn", path |-> "none",
                   calls |-> 0, vol |-> vol, fat32_initialized |-> init,
                   screen |-> CpuScreen(1), entry |-> CpuScreen(1),
                   text_screen_save |-> [i \in 0 .. TextCells - 1 |-> 0],
                   highlighted_row |-> -1, dir |-> RootCluster,
                   list_length |-> 0, list_start |-> 0,
                   prev_list_start |-> -1, highlighted_line |-> 0,
                   exec |-> ExecAtBoot, exec_entry |-> ExecAtBoot,
                   rom_bytes |-> 0, junk |-> 0, mem |-> << >>]

NextLoader ==
    \/ \E pat \in ScreenPatterns : CpuDraws(pat)
    \/ LoaderCall
    \/ \E key \in Keys, g \in GarbageEntries, junk \in JunkReads :
          LoaderKey(key, g, junk)
    \/ \E key \in Keys : LoaderWait(key)

SpecLoader == InitLoader /\ [][NextLoader]_vars

(***************************************************************************)
(* Properties of the loader                                                *)
(***************************************************************************)
\* The first cells of the text screen show the message
Shows(msg) ==
    \A i \in 1 .. Len(msg) : ld.screen[i - 1] = BitAnd(toupper(msg[i]), 191)

\* C36: after every return of loader(), by whichever path, the 512 cells of
\* the text screen at 0x0400..0x05FF hold the values they held when
\* loader() was entered.
C36_ScreenRestored ==
    ld.last = "returned" => ld.screen = ld.entry

\* loader() returned after a ROM image was loaded, to the screen the
\* program had drawn, which the browser had written over
C36_Witness ==
    /\ ld.last = "returned"
    /\ ld.path = "rom"
    /\ ld.exec = << 192, 0 >>
    /\ ld.entry = CpuScreen(2)
    /\ ld.screen = CpuScreen(2)
    /\ ld.highlighted_line > 0

\* Each of the return paths is taken, but for the one of the directory
\* read error: fat32_parse_dir() returns the code of the failed read,
\* which is not -1
C36_WitnessFat32 == ld.last = "returned" /\ ld.path = "fat32"
C36_WitnessQuit == ld.last = "returned" /\ ld.path = "quit"
C36_WitnessCas == ld.last = "returned" /\ ld.path = "cas"
C36_WitnessVdk == ld.last = "returned" /\ ld.path = "vdk"
C36_NoDirError == ld.path # "dir"

\* C37, as stated: for a listing of n entries, n in 0..256, and any keys,
\* 0 <= highlighted_line <= 14, list_start >= 0 and list_start +
\* highlighted_line <= max(n - 1, 0), so that ENTER selects an entry that
\* fat32_parse_dir() filled in.
C37_BrowserInBounds ==
    (ld.pc = "browse" /\ ld.list_length \in 0 .. FAT32_MAX_DIR_LIST) =>
        /\ ld.highlighted_line \in 0 .. TERMINAL_LIST_LENGTH
        /\ ld.list_start >= 0
        /\ ld.list_start + ld.highlighted_line
              <= (IF ld.list_length - 1 > 0 THEN ld.list_length - 1 ELSE 0)

\* The bounds hold for the listings of one entry or more, where the
\* selected entry is one of the listing
C37_InBoundsWhenListed ==
    (ld.pc = "browse" /\ ld.list_length >= 1) =>
        /\ ld.highlighted_line \in 0 .. TERMINAL_LIST_LENGTH
        /\ ld.list_start >= 0
        /\ ld.list_start + ld.highlighted_line < ld.list_length

\* The listing of 16 entries scrolled by one, its last entry selected
C37_WitnessScrolled ==
    /\ ld.pc = "browse"
    /\ ld.list_length = 16
    /\ ld.list_start = 1
    /\ ld.highlighted_line = TERMINAL_LIST_LENGTH

\* The empty listing after 15 DOWN keys
C37_WitnessEmpty ==
    /\ ld.pc = "browse"
    /\ ld.list_length = 0
    /\ ld.list_start = -(TERMINAL_LIST_LENGTH + 1)

\* C38, as stated: when the read of the selected ROM file returns a
\* negative code, the loader shows the ROM read error, loads nothing at
\* 0xC000, defines no read-only range and leaves the EXEC vector as it was.
C38_FailedReadLeavesMemory ==
    (ld.pc = "wait" /\ ld.path = "rom" /\ ld.junk = 0 /\ ld.rom_bytes < 0) =>
        /\ Shows(MSG_ROM_READ_ERROR)
        /\ ld.mem = << >>
        /\ ld.exec = ld.exec_entry

\* What the loader does with the value of fat32_fread(): but for -1, it is
\* the length of the load, and the vector is set
C38_LoadsUnlessMinusOne ==
    (ld.pc = "wait" /\ ld.path = "rom") =>
        IF ld.rom_bytes = -1
        THEN Shows(MSG_ROM_READ_ERROR) /\ ld.mem = << >>
                /\ ld.exec = ld.exec_entry
        ELSE /\ Shows(MSG_ROM_READ_DONE)
             /\ ld.mem = << [call |-> "mem_load", a |-> CARTRIDGE_ROM_BASE,
                             b |-> ld.rom_bytes],
                            [call |-> "mem_define_rom",
                             a |-> CARTRIDGE_ROM_BASE,
                             b |-> ld.rom_bytes - 1] >>
             /\ ld.exec = << 192, 0 >>

\* The ROM image of 8192 bytes loaded
C38_WitnessLoaded ==
    /\ ld.pc = "wait" /\ ld.path = "rom" /\ ld.junk = 0
    /\ ld.rom_bytes = RomBytes

\* The ROM image of no bytes read
C38_WitnessEmptyRom ==
    /\ ld.pc = "wait" /\ ld.path = "rom" /\ ld.junk = 0
    /\ ld.rom_bytes = FAT_EOF

(***************************************************************************)
(* The sector cache of fat32.c: high_sector_buffer and                     *)
(* absolute_lba_cached, which all the open files and fat32_parse_dir()     *)
(* share, and the fields of file_param_t that place a file on the card.    *)
(* The card reads and writes without faults.  A sector is a function from  *)
(* 0..511 to bytes; fs.over holds the sectors written so far.              *)
(***************************************************************************)
FAT32_SEC_SIZE == 512
FAT32_FAT_MASK == 268435455
FAT32_VALID_CLUST_LOW == 2
FAT32_VALID_CLUST_HIGH == 268435439
FAT32_END_OF_CHAIN == 268435448
FAT_FILE_SEEK_ERR == -21

\* fat32_parameters of the card, and the cluster of its root directory
SectorsPerCluster == 2
ClusterBeginLba == 64
DirCluster == 2
DirEntries == 2

ClusterBytes == SectorsPerCluster * FAT32_SEC_SIZE

\* The clusters of the two files, in the order of their chains
Files == {"a", "b"}
Chain(x) == IF x = "a" THEN << 5, 9, 12 >> ELSE << 6, 7, 10 >>

\* The chain of a file of file_size bytes is as long as its bytes need,
\* and one cluster long at least
ChainLength(file_size) ==
    IF file_size <= ClusterBytes THEN 1
    ELSE (file_size + ClusterBytes - 1) \div ClusterBytes

\* fat32_get_next_cluster_num(): the entry of the FAT for the cluster
NextCluster(x, file_size, cluster_num) ==
    LET at == { n \in 1 .. ChainLength(file_size) : Chain(x)[n] = cluster_num }
    IN  IF at = {} \/ at = {ChainLength(file_size)}
        THEN FAT32_FAT_MASK
        ELSE Chain(x)[(CHOOSE n \in at : TRUE) + 1]

fat32_get_cluster_base_lba(cluster) ==
    ClusterBeginLba + (cluster - 2) * SectorsPerCluster

\* The bytes of the card before any write
CardByte(lba, offset) == (lba * 7 + offset) % 251

\* The bytes a client writes: none of them is a byte the card held
ClientByte(n) == 251 + (n % 5)

\* fat32_read_sector() and fat32_write_sector()
Sector(over, lba) ==
    IF lba \in DOMAIN over THEN over[lba]
    ELSE [n \in 0 .. FAT32_SEC_SIZE - 1 |-> CardByte(lba, n)]

PutSector(over, lba, sector) ==
    [l \in DOMAIN over \cup {lba} |-> IF l = lba THEN sector ELSE over[l]]

\* The sector that holds the byte at a position of a file, and the byte
FileLba(x, position) ==
    fat32_get_cluster_base_lba(Chain(x)[(position \div ClusterBytes) + 1])
        + ((position \div FAT32_SEC_SIZE) % SectorsPerCluster)

FileByte(over, x, position) ==
    Sector(over, FileLba(x, position))[position % FAT32_SEC_SIZE]

\* fat32_fopen() of the entry of file x, of file_size bytes
OpenParams(x, file_size) ==
    [file_is_open |-> TRUE,
     file_start_cluster |-> Chain(x)[1],
     file_size |-> file_size,
     current_position |-> 0,
     current_cluster |-> Chain(x)[1],
     is_end_of_chain |-> FALSE,
     current_base_lba |-> fat32_get_cluster_base_lba(Chain(x)[1]),
     current_lba_index |-> 0,
     current_byte_index |-> 0,
     eof_flag |-> (file_size = 0),
     sector_cached |-> FALSE]

\* The walk of fat32_fseek() along the chain: the cluster reached after i
\* of cluster_index steps, and whether the chain ended
RECURSIVE SeekWalk(_, _, _, _)
SeekWalk(x, f, w, cluster_index) ==
    IF w.i >= cluster_index THEN w
    ELSE LET next == NextCluster(x, f.file_size, w.num)
         IN  IF next >= FAT32_END_OF_CHAIN
             THEN [w EXCEPT !.num = next, !.eoc = TRUE]
             ELSE IF next >= FAT32_VALID_CLUST_LOW
                     /\ next <= FAT32_VALID_CLUST_HIGH
             THEN SeekWalk(x, f, [w EXCEPT !.num = next, !.cur = next,
                                           !.i = @ + 1], cluster_index)
             ELSE [w EXCEPT !.num = next, !.bad = TRUE]

\* fat32_fseek(): the file structure, and the value returned
SeekParams(x, f, byte_position) ==
    LET w == SeekWalk(x, f,
                      [i |-> 0, num |-> f.file_start_cluster,
                       cur |-> f.file_start_cluster, eoc |-> FALSE,
                       bad |-> FALSE],
                      byte_position \div ClusterBytes)
        walked == [f EXCEPT !.current_cluster = w.cur,
                            !.is_end_of_chain = w.eoc]
    IN  IF ~f.file_is_open
        THEN [file |-> f, ret |-> FAT_FILE_NOT_OPEN]
        ELSE IF byte_position > f.file_size
        THEN [file |-> f, ret |-> FAT_FILE_SEEK_RANGE]
        ELSE IF w.bad
        THEN [file |-> walked, ret |-> FAT_FILE_SEEK_ERR]
        ELSE [file |->
                [walked EXCEPT
                    !.current_base_lba =
                        IF w.eoc THEN 0
                        ELSE fat32_get_cluster_base_lba(w.num),
                    !.current_lba_index =
                        IF w.eoc THEN 0
                        ELSE (byte_position \div FAT32_SEC_SIZE)
                                 % SectorsPerCluster,
                    !.current_byte_index = byte_position % FAT32_SEC_SIZE,
                    !.sector_cached = FALSE,
                    !.current_position = byte_position,
                    !.eof_flag = (byte_position = f.file_size)],
              ret |-> NO_ERROR]

\* Variant: the flag of the file alone decides
FirstSectorByFlag(c, f) ==
    LET lba == f.current_base_lba + f.current_lba_index
    IN  [byte_count |-> 0,
         byte_offset |-> f.current_byte_index,
         file_position |-> f.current_position,
         file_cluster |-> f.current_cluster,
         base_lba |-> f.current_base_lba,
         lba_index |-> f.current_lba_index,
         is_end_of_chain |-> f.is_end_of_chain,
         eof_flag |-> f.eof_flag,
         high |-> IF f.sector_cached THEN c.high ELSE Sector(c.over, lba),
         abs |-> IF f.sector_cached THEN c.abs ELSE lba,
         over |-> c.over,
         out |-> << >>,
         ended |-> FALSE]

\* The locals of fat32_fread() and fat32_fwrite() after the first sector
\* is cached: the flag is cleared when absolute_lba_cached is another
\* sector, and the sector is read when the flag is clear
FirstSector(c, f) ==
    LET lba == f.current_base_lba + f.current_lba_index
        sector_cached == f.sector_cached /\ c.abs = lba
    IN  [byte_count |-> 0,
         byte_offset |-> f.current_byte_index,
         file_position |-> f.current_position,
         file_cluster |-> f.current_cluster,
         base_lba |-> f.current_base_lba,
         lba_index |-> f.current_lba_index,
         is_end_of_chain |-> f.is_end_of_chain,
         eof_flag |-> f.eof_flag,
         high |-> IF sector_cached THEN c.high ELSE Sector(c.over, lba),
         abs |-> IF sector_cached THEN c.abs ELSE lba,
         over |-> c.over,
         out |-> << >>,
         ended |-> FALSE]

\* The end of a sector: the next sector, of the next cluster at the end of
\* the cluster; ended, when the chain has no next cluster
NextSector(x, file_size, L) ==
    IF L.byte_offset # FAT32_SEC_SIZE THEN L
    ELSE IF L.lba_index + 1 # SectorsPerCluster
    THEN [L EXCEPT !.byte_offset = 0, !.lba_index = @ + 1]
    ELSE LET next == NextCluster(x, file_size, L.file_cluster)
         IN  [L EXCEPT !.byte_offset = 0, !.lba_index = 0,
                       !.file_cluster = next,
                       !.is_end_of_chain = (next >= FAT32_END_OF_CHAIN),
                       !.ended = (next >= FAT32_END_OF_CHAIN),
                       !.base_lba =
                           IF next >= FAT32_END_OF_CHAIN THEN @
                           ELSE fat32_get_cluster_base_lba(next)]

\* "Read next sector into cache"
CacheNext(L) ==
    [L EXCEPT !.high = Sector(L.over, L.base_lba + L.lba_index),
              !.abs = L.base_lba + L.lba_index]

\* The loop of fat32_fread()
RECURSIVE ReadLoop(_, _, _, _)
ReadLoop(x, file_size, buffer_length, L) ==
    IF L.byte_count >= buffer_length THEN L
    ELSE LET i == buffer_length - L.byte_count
             j == FAT32_SEC_SIZE - L.byte_offset
             k == file_size - L.file_position
             r == Min(Min(i, j), k)
             copied == [L EXCEPT
                           !.out = @ \o [n \in 1 .. r |->
                                            L.high[L.byte_offset + n - 1]],
                           !.byte_offset = @ + r,
                           !.byte_count = @ + r,
                           !.file_position = @ + r]
             next == NextSector(x, file_size, copied)
         IN  IF copied.file_position = file_size
             THEN [copied EXCEPT !.eof_flag = TRUE]
             ELSE IF next.ended
             THEN [next EXCEPT !.eof_flag = TRUE]
             ELSE ReadLoop(x, file_size, buffer_length, CacheNext(next))

\* The file structure after the loop
Settled(f, L) ==
    [f EXCEPT !.current_position = L.file_position,
              !.current_cluster = L.file_cluster,
              !.current_base_lba = L.base_lba,
              !.current_lba_index = L.lba_index,
              !.current_byte_index = L.byte_offset,
              !.is_end_of_chain = L.is_end_of_chain,
              !.eof_flag = L.eof_flag,
              !.sector_cached = TRUE]

\* fat32_fread() of file x: the file structure, the cache, the bytes put
\* into the buffer and the value returned
ReadParams(c, x, f, buffer_length) ==
    LET L == ReadLoop(x, f.file_size, buffer_length, FirstSector(c, f))
    IN  IF ~f.file_is_open
        THEN [file |-> f, high |-> c.high, abs |-> c.abs, out |-> << >>,
              ret |-> FAT_FILE_NOT_OPEN]
        ELSE IF f.eof_flag
        THEN [file |-> f, high |-> c.high, abs |-> c.abs, out |-> << >>,
              ret |-> FAT_EOF]
        ELSE [file |-> Settled(f, L), high |-> L.high, abs |-> L.abs,
              out |-> L.out, ret |-> L.byte_count]

\* The loop of fat32_fwrite(), for the writes that end within the file:
\* no cluster is allocated and the size of the file stays
RECURSIVE WriteLoop(_, _, _, _)
WriteLoop(x, file_size, data, L) ==
    IF L.byte_count >= Len(data) THEN L
    ELSE LET i == Len(data) - L.byte_count
             j == FAT32_SEC_SIZE - L.byte_offset
             r == Min(i, j)
             sector == [n \in 0 .. FAT32_SEC_SIZE - 1 |->
                          IF n >= L.byte_offset /\ n < L.byte_offset + r
                          THEN data[L.byte_count + (n - L.byte_offset) + 1]
                          ELSE L.high[n]]
             stored == [L EXCEPT
                           !.high = sector,
                           !.over = PutSector(@, L.base_lba + L.lba_index,
                                              sector),
                           !.byte_offset = @ + r,
                           !.byte_count = @ + r,
                           !.file_position = @ + r]
         IN  IF stored.byte_count = Len(data)
             THEN stored
             ELSE WriteLoop(x, file_size, data,
                            CacheNext(NextSector(x, file_size, stored)))

\* fat32_fwrite() of file x
WriteParams(c, x, f, data) ==
    LET L == WriteLoop(x, f.file_size, data, FirstSector(c, f))
    IN  IF ~f.file_is_open
        THEN [file |-> f, high |-> c.high, abs |-> c.abs, over |-> c.over,
              ret |-> FAT_FILE_NOT_OPEN]
        ELSE IF f.file_size = 0
        THEN [file |-> f, high |-> c.high, abs |-> c.abs, over |-> c.over,
              ret |-> FAT_WRITE_FAIL]
        ELSE [file |-> [Settled(f, L) EXCEPT
                           !.eof_flag = (L.file_position = f.file_size)],
              high |-> L.high, abs |-> L.abs, over |-> L.over,
              ret |-> L.byte_count]

\* The bytes [position, position + Len(data)) of file x replaced by data,
\* and no other byte of the card
RECURSIVE Replaced(_, _, _, _, _)
Replaced(over, x, position, data, from) ==
    IF from > Len(data) THEN over
    ELSE LET at == position + from - 1
             first == at % FAT32_SEC_SIZE
             upto == Min(Len(data), from + (FAT32_SEC_SIZE - 1 - first))
             lba == FileLba(x, at)
             old == Sector(over, lba)
             sector == [n \in 0 .. FAT32_SEC_SIZE - 1 |->
                          IF n >= first /\ n <= first + (upto - from)
                          THEN data[from + (n - first)]
                          ELSE old[n]]
         IN  Replaced(PutSector(over, lba, sector), x, position, data,
                      upto + 1)

\* The two records of sectors hold the same card
SameCard(over, other) ==
    \A lba \in DOMAIN over \cup DOMAIN other :
       Sector(over, lba) = Sector(other, lba)

NoCacheCall ==
    [op |-> "none", x |-> "a", ret |-> 0, len |-> 0, pos |-> 0,
     out |-> << >>, expect |-> << >>]

\* The cache after start-up, with the files opened at the sizes given.
\* Fields that are not in the program: ops, the number of calls; parsed,
\* fat32_parse_dir() was called; ideal, the card with the bytes of each
\* write replaced and no others; last, the last call with what it returned
\* and, for a read, the bytes of the file at the position it found.
CacheWith(sizes) ==
    [pc |-> "on", ops |-> 0, parsed |-> FALSE,
     over |-> EmptyMap, ideal |-> EmptyMap,
     high |-> [n \in 0 .. FAT32_SEC_SIZE - 1 |-> 0],
     abs |-> 0,
     files |-> [x \in Files |-> OpenParams(x, sizes[x])],
     last |-> NoCacheCall]

not_cache_vars ==
    << core_vars, file_vars, loop_vars, frame_vars, loader_vars >>

\* fat32_fseek(&x, byte_position)
CacheFseek(x, byte_position) ==
    LET s == SeekParams(x, fs.files[x], byte_position)
    IN  /\ fs.pc = "on"
        /\ fs.ops < MaxFileOps
        /\ fs' = [fs EXCEPT
                     !.ops = @ + 1,
                     !.files[x] = s.file,
                     !.last = [NoCacheCall EXCEPT !.op = "fseek", !.x = x,
                                             !.ret = s.ret,
                                             !.pos = byte_position]]
        /\ UNCHANGED not_cache_vars

\* fat32_fread(&x, buffer, buffer_length)
CacheFread(x, buffer_length) ==
    LET f == fs.files[x]
        got == ReadParams(fs, x, f, buffer_length)
        left == IF f.file_size - f.current_position < buffer_length
                THEN f.file_size - f.current_position
                ELSE buffer_length
    IN  /\ fs.pc = "on"
        /\ fs.ops < MaxFileOps
        /\ fs' = [fs EXCEPT
                     !.ops = @ + 1,
                     !.files[x] = got.file,
                     !.high = got.high,
                     !.abs = got.abs,
                     !.last = [op |-> "fread", x |-> x, ret |-> got.ret,
                               len |-> buffer_length,
                               pos |-> f.current_position,
                               out |-> got.out,
                               expect |->
                                  [n \in 1 .. left |->
                                     FileByte(fs.over, x,
                                              f.current_position + n - 1)]]]
        /\ UNCHANGED not_cache_vars

\* fat32_fwrite(&x, buffer, buffer_length), of a buffer that ends within
\* the file
CacheFwrite(x, buffer_length) ==
    LET f == fs.files[x]
        data == [n \in 1 .. buffer_length |-> ClientByte(n)]
        put == WriteParams(fs, x, f, data)
    IN  /\ fs.pc = "on"
        /\ fs.ops < MaxFileOps
        /\ f.current_position + buffer_length <= f.file_size
        /\ fs' = [fs EXCEPT
                     !.ops = @ + 1,
                     !.files[x] = put.file,
                     !.high = put.high,
                     !.abs = put.abs,
                     !.over = put.over,
                     !.ideal = Replaced(@, x, f.current_position, data, 1),
                     !.last = [NoCacheCall EXCEPT !.op = "fwrite", !.x = x,
                                             !.ret = put.ret,
                                             !.len = buffer_length,
                                             !.pos = f.current_position]]
        /\ UNCHANGED not_cache_vars

\* fat32_parse_dir(DirCluster, ...): the sector of the directory is read
\* into high_sector_buffer, and absolute_lba_cached is not set
CacheParseDir ==
    /\ fs.pc = "on"
    /\ fs.ops < MaxFileOps
    /\ fs' = [fs EXCEPT
                 !.ops = @ + 1,
                 !.parsed = TRUE,
                 !.high = Sector(fs.over,
                                 fat32_get_cluster_base_lba(DirCluster)),
                 !.last = [NoCacheCall EXCEPT !.op = "parse_dir",
                                         !.ret = DirEntries]]
    /\ UNCHANGED not_cache_vars

FileSizeA == 1541
FileSizeB == 700
CacheSeeks == {0, 511, 1024}
CacheLengths == {1, 513}

InitCache ==
    /\ CoreIdle /\ FileIdle /\ LoopIdle /\ FrameIdle /\ LoaderIdle
    /\ fs = CacheWith([x \in Files |->
                          IF x = "a" THEN FileSizeA ELSE FileSizeB])

NextCache ==
    \/ \E x \in Files, p \in CacheSeeks : CacheFseek(x, p)
    \/ \E x \in Files, n \in CacheLengths : CacheFread(x, n)
    \/ \E x \in Files, n \in CacheLengths : CacheFwrite(x, n)
    \/ CacheParseDir

SpecCache == InitCache /\ [][NextCache]_vars

\* One file read from the positions fat32_fopen() and fat32_fseek() set
ReadSizes == {0, 5, 512, 1024, 1541, 2048}
ReadPositions == {0, 511, 1024}
ReadLengths == {1, 512, 513, 1030}

InitRead ==
    /\ CoreIdle /\ FileIdle /\ LoopIdle /\ FrameIdle /\ LoaderIdle
    /\ \E n \in ReadSizes :
          fs = CacheWith([x \in Files |-> IF x = "a" THEN n ELSE 0])

NextRead ==
    \/ \E p \in ReadPositions \cup {fs.files["a"].file_size} :
          CacheFseek("a", p)
    \/ \E n \in ReadLengths : CacheFread("a", n)

SpecRead == InitRead /\ [][NextRead]_vars

(***************************************************************************)
(* Properties of the sector cache                                          *)
(***************************************************************************)
\* The last call was a read that returned the bytes of its file at the
\* position it found
ReadOwnBytes ==
    (fs.last.op = "fread" /\ fs.last.ret >= 0) =>
        /\ fs.last.ret = Len(fs.last.out)
        /\ fs.last.out = SubSeq(fs.last.expect, 1, fs.last.ret)

\* C39, as stated: in any interleaving of fat32_fread, fat32_fwrite and
\* fat32_fseek on two open files and of fat32_parse_dir, every read
\* returns the bytes of its own file at its position and every write
\* changes the bytes it targets in its own file and no others.
C39_OwnFileOnly ==
    fs.pc = "on" => ReadOwnBytes /\ SameCard(fs.over, fs.ideal)

\* The same holds as long as fat32_parse_dir() was not called
C39_WithoutParseDir ==
    (fs.pc = "on" /\ ~fs.parsed) =>
        ReadOwnBytes /\ SameCard(fs.over, fs.ideal)

\* The two files read in turn from sectors of their own, each read finding
\* the sector of the other file in the cache
C39_WitnessAlternate ==
    /\ fs.pc = "on" /\ ~fs.parsed /\ fs.ops = 3
    /\ fs.last.op = "fread" /\ fs.last.x = "a" /\ fs.last.pos = 1
    /\ fs.last.ret = 1
    /\ fs.files["b"].sector_cached /\ fs.files["b"].current_position = 1

\* A read after fat32_parse_dir() that returns a byte of the directory
C39_WitnessStale ==
    /\ fs.pc = "on" /\ fs.parsed
    /\ fs.last.op = "fread" /\ fs.last.ret = 1
    /\ fs.last.out =
          << CardByte(fat32_get_cluster_base_lba(DirCluster), fs.last.pos) >>
    /\ fs.last.out # fs.last.expect

\* A write after fat32_parse_dir() that stores the bytes of the directory
\* in the sector of the file
C39_WitnessStaleWrite ==
    /\ fs.pc = "on" /\ fs.parsed
    /\ fs.last.op = "fwrite" /\ fs.last.ret = 1
    /\ ~SameCard(fs.over, fs.ideal)

\* What the last read should have returned by the statement of C40
ReadAsStated ==
    LET f == fs.files[fs.last.x]
        n == f.file_size
        r == Min(fs.last.len, n - fs.last.pos)
    IN  /\ fs.last.ret = r
        /\ fs.last.out = fs.last.expect
        /\ Len(fs.last.out) = r
        /\ f.current_position = fs.last.pos + r
        /\ f.current_position <= n
        /\ f.eof_flag = (f.current_position = n)

\* C40, as stated: from any position p <= n that fat32_fopen or
\* fat32_fseek set, each fat32_fread returns min(buffer_length, n -
\* position) bytes, the bytes of the file from the position on, advances
\* current_position by that count, keeps it <= n and sets eof_flag exactly
\* when it reaches n.
C40_ConsecutiveReads ==
    (fs.pc = "on" /\ fs.last.op = "fread") => ReadAsStated

\* The same holds for the reads from a position below n; the read at
\* position n returns FAT_EOF and leaves the file structure as it is
C40_ReadsBelowEnd ==
    (fs.pc = "on" /\ fs.last.op = "fread") =>
        IF fs.last.pos < fs.files[fs.last.x].file_size
        THEN ReadAsStated
        ELSE /\ fs.last.ret = FAT_EOF
             /\ fs.last.out = << >>
             /\ fs.files[fs.last.x].current_position = fs.last.pos
             /\ fs.files[fs.last.x].eof_flag

\* The position and the flag after every call
C40_PositionAndFlag ==
    fs.pc = "on" =>
        \A x \in Files :
           /\ fs.files[x].current_position <= fs.files[x].file_size
           /\ fs.files[x].eof_flag
                 = (fs.files[x].current_position = fs.files[x].file_size)

\* A read of 1030 bytes from position 513 that ends the file of 1541 bytes
\* two bytes short of the buffer, over the end of a cluster
C40_WitnessLast ==
    /\ fs.pc = "on" /\ fs.files["a"].file_size = 1541
    /\ fs.last.op = "fread" /\ fs.last.len = 1030 /\ fs.last.pos = 513
    /\ fs.last.ret = 1028
    /\ fs.files["a"].eof_flag

\* A read at the end of the file
C40_WitnessAtEnd ==
    /\ fs.pc = "on" /\ fs.files["a"].file_size = 1541
    /\ fs.last.op = "fread" /\ fs.last.pos = 1541
    /\ fs.last.ret = FAT_EOF
=============================================================================
